---- MODULE Spec2Model ----
(***************************************************************************)
(* ProcureAI backend: the inbound-email pipeline (correlation, response    *)
(* record lifecycle, proposal parsing), the dispatch tracker and the       *)
(* stores they share, as a state machine.  Every database operation of a   *)
(* handler is one atomic step; the handler's synchronous code between two  *)
(* awaits belongs to the step whose result it consumes.                    *)
(***************************************************************************)
EXTENDS Integers, Sequences, FiniteSets, TLC

(* ------------------------------ bounds --------------------------------- *)
\* number of sendRFP dispatches (each takes a fresh timestamp)
MaxSends == 3
MaxPipelineSends == 1
\* number of inbound emails handed to the pipeline (poll or webhook)
MaxEmails == 2
MaxCorrEmails == 1
\* number of runs of the re-parse script
MaxReparse == 1
\* number of completion requests made of the AIService
MaxCalls == 2
\* number of inbound emails handled with the oracle call spelled out
MaxStuckEmails == 1
\* inbound emails and getComparison requests beside vendor management
MaxCmpEmails == 2
MaxComparisons == 1
MaxFetches == 1
MaxScriptEmails == 2
MaxScriptRuns == 2

(* ------------------------------ values --------------------------------- *)
Null == "null"
None == <<>>
Some(x) == <<x>>

\* identifiers in the order the store hands them out / returns them
RfpOrder == <<"a1", "b2">>
VendorOrder == <<"v1", "v2">>
RfpIds == {RfpOrder[i] : i \in DOMAIN RfpOrder}
VendorIds == {VendorOrder[i] : i \in DOMAIN VendorOrder}
IndexOf(order, x) == CHOOSE i \in DOMAIN order : order[i] = x
Flows == {"f1", "f2"}

\* confidence values are hundredths: 70 stands for 0.7
confidenceThreshold == 70
\* the literal the handlers and the re-parse script compare with
reviewBelow == 70

(* ------------------------- addresses and subjects ---------------------- *)
\* String.prototype.toLowerCase, character by character
LowerChar(c) ==
  CASE c = "V" -> "v"
    [] c = "X" -> "x"
    [] c = "Z" -> "z"
    [] OTHER -> c

ToLowerCase(s) == [i \in DOMAIN s |-> LowerChar(s[i])]

\* the email a vendor was registered with (createVendor request body)
RegisteredEmail(v) ==
  IF v = "v1" THEN <<"V", "1", "@", "x">> ELSE <<"v", "2", "@", "X">>

\* Vendor schema: email has the setter lowercase: true
StoredEmail(v) == ToLowerCase(RegisteredEmail(v))

\* sender addresses of inbound mail; NoAddress: nothing could be extracted
NoAddress == <<>>
Senders ==
  { <<"v", "1", "@", "x">>, <<"V", "1", "@", "X">>, <<"v", "2", "@", "x">>,
    <<"z", "9", "@", "x">>, NoAddress }

\* a subject line is a sequence of tokens; a bracketed tag token carries its
\* prefix and the identifier between "-" and "]"
Word == [prefix |-> "", id |-> ""]
Tag(p, r) == [prefix |-> p, id |-> r]

UpperPrefix(p) == IF p = "rfp" THEN "RFP" ELSE p

Subjects ==
  { <<>>, <<Word>> }
    \cup { <<Word, Tag("RFP", r)>> : r \in RfpIds }
    \cup { <<Tag("rfp", "a1"), Tag("RFP", "b2")>>, <<Word, Tag("REQ", "a1")>> }

Bodies == {"", "quote"}

Emails == [from : Senders, subject : Subjects, body : Bodies]

\* the emails of the overlapping handlers: replies of both vendors, with the
\* tag and without
PipelineEmails ==
  { e \in Emails :
      /\ e.from \in { <<"V", "1", "@", "X">>, <<"v", "2", "@", "x">> }
      /\ e.subject \in { <<Word>>, <<Word, Tag("RFP", "a1")>> }
      /\ e.body = "quote" }

\* email.subject?.match(/\[RFP-([a-f0-9]+)\]/i): the first matching tag
RECURSIVE FirstTag(_, _)
FirstTag(subject, i) ==
  IF i > Len(subject) THEN Null
  ELSE IF UpperPrefix(subject[i].prefix) = "RFP" THEN subject[i].id
  ELSE FirstTag(subject, i + 1)

RfpIdMatch(subject) == FirstTag(subject, 1)

(* ------------------------------ state ---------------------------------- *)
VARIABLES
  vendors,     \* Vendor collection: vendor id -> stored email
  rfps,        \* RFP collection: id -> [status, vendors (dispatch list)]
  proposals,   \* Proposal collection, in insertion order; _id = position
  now,         \* the clock read by new Date() in sendRFP
  flow,        \* the inbound handlers in flight
  started,     \* number of inbound emails handled so far
  reparse,     \* the re-parse script: its loaded documents and position
  call,        \* the AIService completion request in flight (retryWithBackoff)
  cmp,         \* the getComparison request in flight
  batch        \* the mailbox fetch in progress (fetchUnreadEmails)

vars == <<vendors, rfps, proposals, now, flow, started, reparse, call, cmp, batch>>

NoRFP == [status |-> "none", vendors |-> <<>>]

IdleFlow ==
  [pc |-> "idle", kind |-> "poll", email |-> [from |-> NoAddress, subject |-> <<>>, body |-> ""],
   rfpId |-> Null, vendorId |-> Null, success |-> FALSE, pid |-> 0,
   oracleValid |-> FALSE, calls |-> 0, parsed |-> None,
   result |-> Null, proposalId |-> 0]

\* no completion request has been made yet
IdleCall ==
  [pc |-> "idle", purpose |-> Null, owner |-> 0, retries |-> 0, attempts |-> 0,
   waits |-> <<>>, log |-> <<>>, content |-> None, error |-> None]

\* no comparison has been requested yet
IdleCmp ==
  [pc |-> "idle", rfpId |-> Null, docs |-> <<>>, failed |-> FALSE, reply |-> None,
   comparison |-> None, response |-> None, runs |-> 0]

\* no mailbox fetch has been made yet
IdleBatch ==
  [pc |-> "idle", msgs |-> <<>>, skipped |-> {}, resolved |-> None, fetches |-> 0]

Init ==
  /\ vendors = [v \in VendorIds |-> StoredEmail(v)]
  /\ rfps = [r \in RfpIds |-> NoRFP]
  /\ proposals = <<>>
  /\ now = 0
  /\ flow = [f \in Flows |-> IdleFlow]
  /\ started = 0
  /\ reparse = [pc |-> "idle", queue |-> <<>>, parsed |-> None, runs |-> 0]
  /\ call = IdleCall
  /\ cmp = IdleCmp
  /\ batch = IdleBatch

(* --------------------------- request workflow -------------------------- *)
\* createRFP: the structured RFP is stored as a draft under a fresh id
createRFP(r) ==
  /\ rfps[r].status = "none"
  /\ \A q \in RfpIds : IndexOf(RfpOrder, q) < IndexOf(RfpOrder, r) => rfps[q].status # "none"
  /\ rfps' = [rfps EXCEPT ![r] = [status |-> "draft", vendors |-> <<>>]]
  /\ UNCHANGED <<vendors, proposals, now, flow, started, reparse, call, cmp, batch>>

\* variant: the entry is pushed without looking for an existing one
UpsertAlwaysPush(list, v, t) == Append(list, [vendor_id |-> v, sent_at |-> t])

\* the dispatch list after one entry is upserted
Upsert(list, v, t) ==
  IF \E i \in DOMAIN list : list[i].vendor_id = v
  THEN [i \in DOMAIN list |->
          IF list[i].vendor_id = v THEN [list[i] EXCEPT !.sent_at = t] ELSE list[i]]
  ELSE Append(list, [vendor_id |-> v, sent_at |-> t])

RECURSIVE UpsertAll(_, _, _)
UpsertAll(list, vs, t) ==
  IF vs = {} THEN list
  ELSE LET v == CHOOSE x \in vs : \A y \in vs : IndexOf(VendorOrder, x) <= IndexOf(VendorOrder, y)
       IN UpsertAll(Upsert(list, v, t), vs \ {v}, t)

\* variant: every vendor found is recorded, whether or not its send succeeded
sendRFPRecordsFailed(r, vendor_ids, successful) ==
  /\ vendor_ids # {}
  /\ rfps[r].status # "none"
  /\ \E v \in vendor_ids : v \in DOMAIN vendors
  /\ successful \subseteq vendor_ids \cap DOMAIN vendors
  /\ now' = now + 1
  /\ rfps' = [rfps EXCEPT ![r] =
       [status |-> IF @.status = "draft" THEN "sent" ELSE @.status,
        vendors |-> UpsertAll(@.vendors, vendor_ids \cap DOMAIN vendors, now')]]
  /\ UNCHANGED <<vendors, proposals, flow, started, reparse, call, cmp, batch>>

\* variant: the status is set to sent whatever it was
sendRFPAlwaysSent(r, vendor_ids, successful) ==
  /\ vendor_ids # {}
  /\ rfps[r].status # "none"
  /\ \E v \in vendor_ids : v \in DOMAIN vendors
  /\ successful \subseteq vendor_ids \cap DOMAIN vendors
  /\ now' = now + 1
  /\ rfps' = [rfps EXCEPT ![r] =
       [status |-> "sent", vendors |-> UpsertAll(@.vendors, successful, now')]]
  /\ UNCHANGED <<vendors, proposals, flow, started, reparse, call, cmp, batch>>

\* sendRFP: vendor_ids requested, successful the vendors whose send succeeded
sendRFP(r, vendor_ids, successful) ==
  /\ vendor_ids # {}
  /\ rfps[r].status # "none"
  /\ \E v \in vendor_ids : v \in DOMAIN vendors
  /\ successful \subseteq vendor_ids \cap DOMAIN vendors
  /\ now' = now + 1
  /\ rfps' = [rfps EXCEPT ![r] =
       [status |-> IF @.status = "draft" THEN "sent" ELSE @.status,
        vendors |-> UpsertAll(@.vendors, successful, now')]]
  /\ UNCHANGED <<vendors, proposals, flow, started, reparse, call, cmp, batch>>

\* the schema's status 'closed': set from outside the backend
closeRFP(r) ==
  /\ rfps[r].status \in {"sent", "receiving_proposals"}
  /\ rfps' = [rfps EXCEPT ![r].status = "closed"]
  /\ UNCHANGED <<vendors, proposals, now, flow, started, reparse, call, cmp, batch>>

(* -------------------------- proposal extraction ------------------------ *)
\* what the completion request ends with: a thrown error (after the retries),
\* text that is not JSON, or a JSON object; confidence None: absent or not a number
Reply(k, li, tp, c, sc) ==
  [kind |-> k, line_items |-> li, total_price |-> tp, confidence |-> c,
   special_conditions |-> sc]

\* the confidence values the oracle reports (hundredths)
Confidences == {0, 69, 70}

OracleReplies ==
  { Reply(k, "ok", "number", None, "array") : k \in {"error", "nonjson"} }
  \cup { Reply("json", "ok", "number", Some(c), "array") :
           c \in (Confidences \ {69}) \cup {0 - 1, 101} }
  \cup { Reply("json", "ok", "number", Some(69), sc) : sc \in {"missing", "string"} }
  \cup { Reply("json", li, "number", Some(70), "array") : li \in {"missing", "empty", "bad_item"} }
  \cup { Reply("json", "ok", "missing", Some(70), "array"),
         Reply("json", "ok", "number", None, "array") }

\* oracle output that is complete except for the confidence field
OmitsConfidence == Reply("json", "ok", "number", None, "array")

\* the argument parseProposal receives: the poll path passes emailData.body
\* (a string), the webhook and the re-parse script pass the email object
StringArg(body) == [type |-> "string", text |-> body, body |-> ""]
ObjectArg(email) == [type |-> "object", text |-> "", body |-> email.body]

\* !emailData || !emailData.body: a string has no property body
BodyMissing(arg) ==
  IF arg.type = "string" THEN TRUE ELSE arg.body = ""

\* variant: the line items are only required to be a list
SchemaValidAnyItems(reply) ==
  /\ reply.line_items # "missing"
  /\ reply.total_price = "number"
  /\ reply.confidence # None /\ reply.confidence[1] >= 0 /\ reply.confidence[1] <= 100

\* the checks of parseProposal on the parsed JSON
SchemaValid(reply) ==
  /\ reply.line_items \notin {"missing", "empty"}
  /\ reply.total_price = "number"
  /\ reply.confidence # None /\ reply.confidence[1] >= 0 /\ reply.confidence[1] <= 100
  /\ reply.line_items # "bad_item"

\* requires_review as parseProposal sets it
RequiresReview(confidence) == confidence < confidenceThreshold

\* variant: an absent confidence counts as 0 instead of failing validation
parseProposalDefaultsConfidence(arg, reply) ==
  IF ~BodyMissing(arg) /\ reply = OmitsConfidence
  THEN Some([line_items |-> reply.line_items, total_price |-> reply.total_price,
             confidence |-> 0, special_conditions |-> "array",
             requires_review |-> RequiresReview(0)])
  ELSE IF BodyMissing(arg) \/ reply.kind # "json" \/ ~SchemaValid(reply) THEN None
  ELSE Some([line_items |-> reply.line_items, total_price |-> reply.total_price,
             confidence |-> reply.confidence[1],
             special_conditions |-> IF reply.special_conditions = "array" THEN "array"
                                    ELSE "empty_array",
             requires_review |-> RequiresReview(reply.confidence[1])])

\* parseProposal(arg) with the oracle answering reply: None when it throws
parseProposal(arg, reply) ==
  IF BodyMissing(arg) \/ reply.kind # "json" \/ ~SchemaValid(reply) THEN None
  ELSE Some([line_items |-> reply.line_items, total_price |-> reply.total_price,
             confidence |-> reply.confidence[1],
             special_conditions |-> IF reply.special_conditions = "array" THEN "array"
                                    ELSE "empty_array",
             requires_review |-> RequiresReview(reply.confidence[1])])

\* parsedData.confidence || 0
OrZero(c) == IF c = 0 THEN 0 ELSE c

\* variant: the raw body is discarded once the structured data is stored
ApplyParsedDropsBody(doc, parsedData, t) ==
  [doc EXCEPT !.parsed_data = Some(parsedData),
              !.parsing_confidence = Some(OrZero(parsedData.confidence)),
              !.requires_review = parsedData.confidence < reviewBelow,
              !.status = "parsed",
              !.parsed_at = Some(t),
              !.raw_email_content = [@ EXCEPT !.body = ""]]

\* the assignments after a successful parse (both handlers, the re-parse script)
ApplyParsed(doc, parsedData, t) ==
  [doc EXCEPT !.parsed_data = Some(parsedData),
              !.parsing_confidence = Some(OrZero(parsedData.confidence)),
              !.requires_review = parsedData.confidence < reviewBelow,
              !.status = "parsed",
              !.parsed_at = Some(t)]

\* variant: the catch block without its assignment
ApplyFailedNoFlag(doc) == doc

\* the assignment in the catch block
ApplyFailed(doc) == [doc EXCEPT !.requires_review = TRUE]

\* document.save() of a loaded document sends the paths whose value differs
\* from the one it was loaded (or last saved) with
SaveDoc(stored, loaded, assigned) ==
  [k \in DOMAIN stored |-> IF assigned[k] # loaded[k] THEN assigned[k] ELSE stored[k]]

(* --------------------------- Proposal store ---------------------------- *)
\* variant: the record is created without the email body
NewProposalNoBody(rfpId, vendorId, email) ==
  [rfp_id |-> rfpId, vendor_id |-> vendorId,
   raw_email_content |-> [email EXCEPT !.body = ""],
   status |-> "received", requires_review |-> FALSE,
   parsing_confidence |-> None, parsed_data |-> None, parsed_at |-> None,
   received_at |-> "on_receipt"]

\* new Proposal({...}) as saved first: schema defaults fill the rest
NewProposal(rfpId, vendorId, email) ==
  [rfp_id |-> rfpId, vendor_id |-> vendorId, raw_email_content |-> email,
   status |-> "received", requires_review |-> FALSE,
   parsing_confidence |-> None, parsed_data |-> None, parsed_at |-> None,
   received_at |-> "on_receipt"]

\* variant: the duplicate lookup only sees parsed records
FindProposalParsedOnly(rfpId, vendorId) ==
  LET hits == {i \in DOMAIN proposals :
                 /\ proposals[i].rfp_id = rfpId /\ proposals[i].vendor_id = vendorId
                 /\ proposals[i].status = "parsed"}
  IN IF hits = {} THEN 0 ELSE CHOOSE i \in hits : \A j \in hits : i <= j

\* Proposal.findOne({rfp_id, vendor_id}): the first match in store order, 0 if none
FindProposal(rfpId, vendorId) ==
  LET hits == {i \in DOMAIN proposals :
                 proposals[i].rfp_id = rfpId /\ proposals[i].vendor_id = vendorId}
  IN IF hits = {} THEN 0 ELSE CHOOSE i \in hits : \A j \in hits : i <= j

(* ------------------------------ correlation ---------------------------- *)
\* variant: the lookup without toLowerCase()
findVendorExact(email) ==
  LET hits == {v \in DOMAIN vendors : vendors[v] = email}
  IN IF hits = {} THEN Null ELSE CHOOSE v \in hits : TRUE

\* findVendorCallback: Vendor.findOne({ email: email.toLowerCase() })
findVendorCallback(email) ==
  LET hits == {v \in DOMAIN vendors : vendors[v] = ToLowerCase(email)}
  IN IF hits = {} THEN Null ELSE CHOOSE v \in hits : TRUE

\* a descending sort on the array path vendors.sent_at orders the documents
\* by the greatest sent_at found in the array
SortKey(r) ==
  LET ts == {rfps[r].vendors[i].sent_at : i \in DOMAIN rfps[r].vendors}
  IN CHOOSE t \in ts : \A u \in ts : u <= t

\* findRFPCallback: RFP.findOne({'vendors.vendor_id': vendorId,
\*   status: {$in: ['sent', 'receiving_proposals']}}).sort({'vendors.sent_at': -1});
\* the documents the query may return (several on equal sort keys), {} for none
findRFPCallback(vendorId) ==
  LET match == {r \in RfpIds :
                  /\ rfps[r].status \in {"sent", "receiving_proposals"}
                  /\ \E i \in DOMAIN rfps[r].vendors : rfps[r].vendors[i].vendor_id = vendorId}
  IN {r \in match : \A q \in match : SortKey(q) <= SortKey(r)}

\* variant: success as soon as one of the ids is resolved
CorrelationResultEither(rfpId, vendorId, fromEmail) ==
  [rfpId |-> rfpId, vendorId |-> vendorId, fromEmail |-> fromEmail,
   success |-> (rfpId # Null \/ vendorId # Null)]

\* the object correlateEmailToRFP returns
CorrelationResult(rfpId, vendorId, fromEmail) ==
  [rfpId |-> rfpId, vendorId |-> vendorId, fromEmail |-> fromEmail,
   success |-> (rfpId # Null /\ vendorId # Null)]

\* the callers' test !correlation.success || !correlation.rfpId || !correlation.vendorId
CorrelationFailed(c) == ~c.success \/ c.rfpId = Null \/ c.vendorId = Null

(* ----------------------- AIService: upstream calls -------------------- *)
\* retry configuration set by the constructor
maxRetries == 3
baseDelay == 1000

\* an error thrown by the upstream client: status 0 and code "" stand for an
\* absent property; the message is a sequence of words
UpstreamError(st, cd, msg) == [kind |-> "error", status |-> st, code |-> cd, message |-> msg]

UpstreamErrors ==
  { UpstreamError(401, "", <<"Incorrect", "API", "key", "sk-1">>),
    UpstreamError(429, "", <<"Rate", "limit", "reached">>),
    UpstreamError(500, "", <<"server", "error">>),
    UpstreamError(502, "", <<"Bad", "gateway">>),
    UpstreamError(503, "", <<"overloaded">>),
    UpstreamError(400, "", <<"Invalid", "request">>),
    UpstreamError(400, "", <<"context", "length", "exceeded">>),
    UpstreamError(0, "ECONNRESET", <<"socket", "hang", "up">>),
    UpstreamError(0, "ETIMEDOUT", <<"connect", "ETIMEDOUT">>),
    UpstreamError(0, "", <<"Request", "timeout">>),
    UpstreamError(0, "", <<"Request", "timed", "out.">>),
    UpstreamError(0, "", <<>>) }

\* what a completion delivers as response.choices[0].message.content
Delivered(reply) == [kind |-> "content", content |-> reply]

Contents ==
  { Delivered(Reply("nonjson", "ok", "number", None, "array")),
    Delivered(Reply("json", "ok", "number", Some(70), "array")),
    Delivered(Reply("json", "missing", "number", Some(70), "array")) }

\* the attempt whose promise never settles
Never == [kind |-> "never"]

\* String.prototype.includes on the words of a message
Includes(msg, needle) ==
  \E i \in 0..(Len(msg) - Len(needle)) :
    \A j \in 1..Len(needle) : msg[i + j] = needle[j]

\* variant: only rate limiting is retried
isRetryableOnly429(error) == error.status = 429

isRetryableError(error) ==
  \/ error.status = 429
  \/ error.status >= 500 /\ error.status < 600
  \/ error.code = "ECONNRESET" \/ error.code = "ETIMEDOUT"
  \/ error.message # <<>> /\ Includes(error.message, <<"timeout">>)

\* handleError: the message of the Error it returns
handleError(error) ==
  IF error.status = 401 THEN <<"Invalid OpenAI API key">>
  ELSE IF error.status = 429
    THEN <<"OpenAI API rate limit exceeded. Please try again later.">>
  ELSE IF error.status = 500 \/ error.status = 503
    THEN <<"OpenAI service is temporarily unavailable. Please try again later.">>
  ELSE IF error.message # <<>> /\ Includes(error.message, <<"timeout">>)
    THEN <<"Request to OpenAI timed out. Please try again.">>
  ELSE <<"AI service error:">>
         \o (IF error.message # <<>> THEN error.message ELSE <<"Unknown error occurred">>)

\* variant: the delay grows by baseDelay each time instead of doubling
LinearDelay(retries) == baseDelay * (maxRetries - retries + 1)

\* this.baseDelay * Math.pow(2, this.maxRetries - retries)
Delay(retries) == baseDelay * 2 ^ (maxRetries - retries)

\* makeCompletionRequest is called: retryWithBackoff(fn) with retries = maxRetries
StartCall(purpose, owner) ==
  /\ call.pc \in {"idle", "returned", "thrown"}
  /\ call' = [IdleCall EXCEPT !.pc = "attempt", !.purpose = purpose, !.owner = owner,
                              !.retries = maxRetries]
  /\ UNCHANGED <<vendors, rfps, proposals, now, flow, started, reparse, cmp, batch>>

\* variant: the catch block retries without asking isRetryableError
AttemptRetryAll(outcome) ==
  /\ call.pc = "attempt"
  /\ outcome.kind \in {"content", "error"}
  /\ call' =
       LET c == [call EXCEPT !.attempts = @ + 1, !.log = Append(@, outcome)]
       IN IF outcome.kind = "content"
          THEN [c EXCEPT !.pc = "returned", !.content = Some(outcome.content)]
          ELSE IF call.retries > 0
          THEN [c EXCEPT !.pc = "sleep"]
          ELSE [c EXCEPT !.pc = "thrown", !.error = Some(handleError(outcome))]
  /\ UNCHANGED <<vendors, rfps, proposals, now, flow, started, reparse, cmp, batch>>

\* one run of fn() inside retryWithBackoff settles: the completion is returned,
\* or the catch block decides between another round and throw handleError(error)
Attempt(outcome) ==
  /\ call.pc = "attempt"
  /\ outcome.kind \in {"content", "error"}
  /\ call' =
       LET c == [call EXCEPT !.attempts = @ + 1, !.log = Append(@, outcome)]
       IN IF outcome.kind = "content"
          THEN [c EXCEPT !.pc = "returned", !.content = Some(outcome.content)]
          ELSE IF call.retries > 0 /\ isRetryableError(outcome)
          THEN [c EXCEPT !.pc = "sleep"]
          ELSE [c EXCEPT !.pc = "thrown", !.error = Some(handleError(outcome))]
  /\ UNCHANGED <<vendors, rfps, proposals, now, flow, started, reparse, cmp, batch>>

\* await this.sleep(delay) is over: retryWithBackoff(fn, retries - 1)
Sleep ==
  /\ call.pc = "sleep"
  /\ call' = [call EXCEPT !.waits = Append(@, Delay(call.retries)),
                          !.retries = @ - 1, !.pc = "attempt"]
  /\ UNCHANGED <<vendors, rfps, proposals, now, flow, started, reparse, cmp, batch>>

\* the request is sent and its promise never settles: no timeout is passed to
\* the client or to the request, and nothing else wakes the caller
Hang ==
  /\ call.pc = "attempt"
  /\ call' = [call EXCEPT !.attempts = @ + 1, !.log = Append(@, Never), !.pc = "hung"]
  /\ UNCHANGED <<vendors, rfps, proposals, now, flow, started, reparse, cmp, batch>>

\* parseJSONResponse: the parsed object, None when JSON.parse throws
parseJSONResponse(content) == IF content.kind = "json" THEN Some(content) ELSE None

MalformedOutput == <<"Failed to parse AI response. The response was not valid JSON.">>

\* variant: malformed output reported like an upstream failure
AdapterErrorAsUpstream(c) ==
  IF c.pc = "thrown" THEN c.error
  ELSE IF c.pc = "returned" /\ parseJSONResponse(c.content[1]) = None
  THEN Some(<<"AI service error:", "Unknown error occurred">>)
  ELSE None

\* the error structureRFP / parseProposal / compareProposals see before their
\* own validation: the one makeCompletionRequest threw, or parseJSONResponse's
AdapterError(c) ==
  IF c.pc = "thrown" THEN c.error
  ELSE IF c.pc = "returned" /\ parseJSONResponse(c.content[1]) = None
  THEN Some(MalformedOutput)
  ELSE None

\* what the caller's parse step receives from a finished call
ReplyOf(c) ==
  IF c.pc = "thrown" THEN Reply("error", "ok", "number", None, "array") ELSE c.content[1]

\* createRFP's catch block and the error middleware: the 500 response body
createRFPFailure(aiErrorMessage) ==
  [status |-> 500, code |-> "AI_SERVICE_ERROR",
   message |-> <<"Failed to structure RFP using AI">>, details |-> aiErrorMessage]

Purposes == {"structureRFP", "parseProposal", "compareProposals"}

(* --------------------------- inbound handlers -------------------------- *)
\* a handler ends: what it returns (poll) or responds (webhook)
Finish(fl, outcome, id) ==
  [IdleFlow EXCEPT !.pc = "done", !.kind = fl.kind, !.result = outcome, !.proposalId = id,
                   !.rfpId = fl.rfpId, !.vendorId = fl.vendorId, !.success = fl.success,
                   !.email = fl.email]

\* correlateEmailToRFP has returned with (rfpId, vendorId): the caller's check,
\* then the duplicate lookup is issued
AfterCorrelation(fl, rfpId, vendorId) ==
  LET c == CorrelationResult(rfpId, vendorId, fl.email.from)
      g == [fl EXCEPT !.rfpId = c.rfpId, !.vendorId = c.vendorId, !.success = c.success]
  IN IF CorrelationFailed(c)
     THEN Finish(g, IF fl.kind = "poll" THEN "correlation_failed" ELSE "400_correlation", 0)
     ELSE [g EXCEPT !.pc = "findExisting"]

\* processReceivedEmail(emailData) / receiveProposal(req): up to the first await
Begin(f, kind, email) ==
  /\ flow[f].pc \in {"idle", "done"}
  /\ started' = started + 1
  /\ LET fl == [IdleFlow EXCEPT !.kind = kind, !.email = email]
         tagged == [fl EXCEPT !.rfpId = RfpIdMatch(email.subject)]
     IN flow' = [flow EXCEPT ![f] =
          IF kind = "webhook" /\ (email.from = NoAddress \/ email.subject = <<>> \/ email.body = "")
          THEN Finish(fl, "400_missing_fields", 0)
          ELSE IF email.from # NoAddress
          THEN [tagged EXCEPT !.pc = "findVendor"]
          ELSE AfterCorrelation(tagged, tagged.rfpId, Null)]
  /\ UNCHANGED <<vendors, rfps, proposals, now, reparse, call, cmp, batch>>

\* variant: the dispatch history is consulted whenever the vendor is found
FindVendorThenHistory(f) ==
  /\ flow[f].pc = "findVendor"
  /\ LET fl == flow[f]
         v == findVendorCallback(fl.email.from)
     IN flow' = [flow EXCEPT ![f] =
          IF v # Null
          THEN [fl EXCEPT !.vendorId = v, !.pc = "findRFP"]
          ELSE AfterCorrelation(fl, fl.rfpId, v)]
  /\ UNCHANGED <<vendors, rfps, proposals, now, started, reparse, call, cmp, batch>>

\* Strategy 2: the vendor lookup answers
FindVendor(f) ==
  /\ flow[f].pc = "findVendor"
  /\ LET fl == flow[f]
         v == findVendorCallback(fl.email.from)
     IN flow' = [flow EXCEPT ![f] =
          IF v # Null /\ fl.rfpId = Null
          THEN [fl EXCEPT !.vendorId = v, !.pc = "findRFP"]
          ELSE AfterCorrelation(fl, fl.rfpId, v)]
  /\ UNCHANGED <<vendors, rfps, proposals, now, started, reparse, call, cmp, batch>>

\* the fallback lookup by dispatch history answers
FindRFP(f) ==
  /\ flow[f].pc = "findRFP"
  /\ LET fl == flow[f]
         found == findRFPCallback(fl.vendorId)
     IN \/ /\ found = {}
           /\ flow' = [flow EXCEPT ![f] = AfterCorrelation(fl, Null, fl.vendorId)]
        \/ \E r \in found : flow' = [flow EXCEPT ![f] = AfterCorrelation(fl, r, fl.vendorId)]
  /\ UNCHANGED <<vendors, rfps, proposals, now, started, reparse, call, cmp, batch>>

\* variant: a duplicate replaces the raw content of the record it found
FindExistingOverwrites(f) ==
  /\ flow[f].pc = "findExisting"
  /\ LET fl == flow[f]
         existing == FindProposal(fl.rfpId, fl.vendorId)
     IN /\ flow' = [flow EXCEPT ![f] =
             IF existing # 0
             THEN Finish(fl, IF fl.kind = "poll" THEN "duplicate_proposal" ELSE "409_duplicate", existing)
             ELSE [fl EXCEPT !.pc = "insert"]]
        /\ proposals' = IF existing # 0
                        THEN [proposals EXCEPT ![existing].raw_email_content = fl.email]
                        ELSE proposals
  /\ UNCHANGED <<vendors, rfps, now, started, reparse, call, cmp, batch>>

\* "Check if proposal already exists": Proposal.findOne answers
FindExisting(f) ==
  /\ flow[f].pc = "findExisting"
  /\ LET fl == flow[f]
         existing == FindProposal(fl.rfpId, fl.vendorId)
     IN flow' = [flow EXCEPT ![f] =
          IF existing # 0
          THEN Finish(fl, IF fl.kind = "poll" THEN "duplicate_proposal" ELSE "409_duplicate", existing)
          ELSE [fl EXCEPT !.pc = "insert"]]
  /\ UNCHANGED <<vendors, rfps, proposals, now, started, reparse, call, cmp, batch>>

\* "Create proposal record with raw email content": the first proposal.save()
Insert(f) ==
  /\ flow[f].pc = "insert"
  /\ proposals' = Append(proposals, NewProposal(flow[f].rfpId, flow[f].vendorId, flow[f].email))
  /\ flow' = [flow EXCEPT ![f].pid = Len(proposals) + 1, ![f].pc = "parse"]
  /\ UNCHANGED <<vendors, rfps, now, started, reparse, call, cmp, batch>>

\* "Parse proposal data using AI": parseProposal returns or throws
Parse(f, reply) ==
  /\ flow[f].pc = "parse"
  /\ LET fl == flow[f]
         arg == IF fl.kind = "poll" THEN StringArg(fl.email.body) ELSE ObjectArg(fl.email)
     IN flow' = [flow EXCEPT ![f].parsed = parseProposal(arg, reply),
                             ![f].calls = IF BodyMissing(arg) THEN 0 ELSE 1,
                             ![f].oracleValid = (reply.kind = "json" /\ SchemaValid(reply)),
                             ![f].pc = "saveParsed"]
  /\ UNCHANGED <<vendors, rfps, proposals, now, started, reparse, call, cmp, batch>>

\* the proposal.save() of the try block or of the catch block
SaveParsed(f) ==
  /\ flow[f].pc = "saveParsed"
  /\ LET fl == flow[f]
         loaded == NewProposal(fl.rfpId, fl.vendorId, fl.email)
         assigned == IF fl.parsed # None THEN ApplyParsed(loaded, fl.parsed[1], now)
                     ELSE ApplyFailed(loaded)
     IN proposals' = [proposals EXCEPT ![fl.pid] = SaveDoc(@, loaded, assigned)]
  /\ flow' = [flow EXCEPT ![f].pc = "updateRFP"]
  /\ UNCHANGED <<vendors, rfps, now, started, reparse, call, cmp, batch>>

\* poll: RFP.findById answers; webhook: RFP.findByIdAndUpdate is applied
UpdateRFP(f) ==
  /\ flow[f].pc = "updateRFP"
  /\ LET fl == flow[f]
         known == fl.rfpId \in RfpIds /\ rfps[fl.rfpId].status # "none"
     IN IF fl.kind = "poll"
        THEN /\ flow' = [flow EXCEPT ![f] =
                  IF known /\ rfps[fl.rfpId].status = "sent"
                  THEN [fl EXCEPT !.pc = "saveRFP"]
                  ELSE Finish(fl, "success", fl.pid)]
             /\ rfps' = rfps
        ELSE /\ rfps' = IF known
                        THEN [rfps EXCEPT ![fl.rfpId].status = "receiving_proposals"]
                        ELSE rfps
             /\ flow' = [flow EXCEPT ![f].pc = "populate"]
  /\ UNCHANGED <<vendors, proposals, now, started, reparse, call, cmp, batch>>

\* poll: rfp.save() of the status set to 'receiving_proposals'
SaveRFP(f) ==
  /\ flow[f].pc = "saveRFP"
  /\ rfps' = [rfps EXCEPT ![flow[f].rfpId].status = "receiving_proposals"]
  /\ flow' = [flow EXCEPT ![f] = Finish(@, "success", @.pid)]
  /\ UNCHANGED <<vendors, proposals, now, started, reparse, call, cmp, batch>>

\* webhook: proposal.populate('vendor_id') answers, the 201 response is built
Populate(f) ==
  /\ flow[f].pc = "populate"
  /\ flow' = [flow EXCEPT ![f] =
       IF @.vendorId \in DOMAIN vendors THEN Finish(@, "201_created", @.pid)
       ELSE Finish(@, "500_type_error", @.pid)]
  /\ UNCHANGED <<vendors, rfps, proposals, now, started, reparse, call, cmp, batch>>

(* ------------------------ vendors and comparison ----------------------- *)
\* deleteVendor: Vendor.findByIdAndDelete(id)
deleteVendor(v) ==
  /\ v \in DOMAIN vendors
  /\ vendors' = [u \in DOMAIN vendors \ {v} |-> vendors[u]]
  /\ UNCHANGED <<rfps, proposals, now, flow, started, reparse, call, cmp, batch>>

\* what compareProposals gets from the oracle: an error thrown by the
\* completion request, text that is not JSON, or a JSON object.
\* A per-vendor entry: vendor_id "" when absent, scores "missing" when one of
\* vendor_name / scores is absent; each list is a list, absent or a string.
Entry(vid, sc, st, wk, rf) ==
  [vendor_id |-> vid, scores |-> sc, strengths |-> st, weaknesses |-> wk, red_flags |-> rf]

\* proposal_analysis: absent, not an array, or an array of entries
Analysis(shape, entries) == [shape |-> shape, entries |-> entries]

\* recommendation: absent, or an object whose vendor_id may be absent ("") and
\* whose confidence is a number (hundredths) or None (absent, not a number)
Recommendation(present, vid, conf) ==
  [present |-> present, vendor_id |-> vid, confidence |-> conf]

CompareReply(k, pa, rec, sm) ==
  [kind |-> k, proposal_analysis |-> pa, recommendation |-> rec, summary |-> sm]

GoodEntry == Entry("v1", "ok", "list", "list", "list")
GoodAnalysis == Analysis("array", <<GoodEntry>>)
GoodRecommendation == Recommendation(TRUE, "v1", Some(90))

CompareReplies ==
  { CompareReply(k, GoodAnalysis, GoodRecommendation, "ok") : k \in {"error", "nonjson"} }
  \cup { CompareReply("json", pa, GoodRecommendation, "ok") :
           pa \in { Analysis("missing", <<>>), Analysis("not_array", <<>>),
                    Analysis("array", <<>>), GoodAnalysis,
                    Analysis("array", <<GoodEntry, Entry("v2", "missing", "list", "list", "list")>>),
                    Analysis("array", <<Entry("", "ok", "list", "list", "list")>>),
                    Analysis("array", <<Entry("v2", "ok", "missing", "string", "list"), GoodEntry>>),
                    Analysis("array", <<Entry("v1", "ok", "list", "list", "missing")>>) } }
  \cup { CompareReply("json", GoodAnalysis, rec, "ok") :
           rec \in { Recommendation(FALSE, "", None), Recommendation(TRUE, "", Some(90)),
                     Recommendation(TRUE, "v2", None), Recommendation(TRUE, "v1", Some(0 - 1)),
                     Recommendation(TRUE, "v1", Some(101)), Recommendation(TRUE, "v2", Some(0)),
                     Recommendation(TRUE, "v1", Some(100)) } }
  \cup { CompareReply("json", GoodAnalysis, GoodRecommendation, "missing"),
         CompareReply("json", Analysis("array", <<Entry("v1", "ok", "string", "missing", "string")>>),
                      Recommendation(TRUE, "v1", None), "ok") }

\* the default recommendation confidence (hundredths)
defaultConfidence == 80

\* the forEach over proposal_analysis: a list that is not an array becomes []
CoerceList(l) == IF l = "list" THEN "list" ELSE "empty_list"

CoerceEntry(e) ==
  [e EXCEPT !.strengths = CoerceList(@), !.weaknesses = CoerceList(@),
            !.red_flags = CoerceList(@)]

\* "Validate recommendation confidence"
CoerceConfidence(conf) ==
  IF conf = None \/ conf[1] < 0 \/ conf[1] > 100 THEN defaultConfidence ELSE conf[1]

\* the checks that make compareProposals throw
ComparisonRejected(reply) ==
  \/ reply.kind # "json"
  \/ reply.proposal_analysis.shape # "array"
  \/ ~reply.recommendation.present \/ reply.recommendation.vendor_id = ""
  \/ reply.summary = "missing"
  \/ \E i \in DOMAIN reply.proposal_analysis.entries :
       \/ reply.proposal_analysis.entries[i].vendor_id = ""
       \/ reply.proposal_analysis.entries[i].scores = "missing"

\* variant: an invalid recommendation confidence rejects the result
compareProposalsStrict(reply) ==
  IF ComparisonRejected(reply) \/ reply.recommendation.confidence = None
     \/ CoerceConfidence(reply.recommendation.confidence) # reply.recommendation.confidence[1]
  THEN None
  ELSE Some([proposal_analysis |->
               [i \in DOMAIN reply.proposal_analysis.entries |->
                  CoerceEntry(reply.proposal_analysis.entries[i])],
             recommendation |->
               [vendor_id |-> reply.recommendation.vendor_id,
                confidence |-> CoerceConfidence(reply.recommendation.confidence)],
             summary |-> reply.summary])

\* compareProposals(rfp, proposals) with the oracle answering reply: the
\* validated comparison, None when it throws
compareProposals(reply) ==
  IF ComparisonRejected(reply) THEN None
  ELSE Some([proposal_analysis |->
               [i \in DOMAIN reply.proposal_analysis.entries |->
                  CoerceEntry(reply.proposal_analysis.entries[i])],
             recommendation |->
               [vendor_id |-> reply.recommendation.vendor_id,
                confidence |-> CoerceConfidence(reply.recommendation.confidence)],
             summary |-> reply.summary])

\* Proposal.find({ rfp_id: id }).populate('vendor_id', ...): the records of the
\* request in store order, vendor_id replaced by the vendor or by null
RECURSIVE Populated(_, _)
Populated(r, i) ==
  IF i > Len(proposals) THEN <<>>
  ELSE IF proposals[i].rfp_id = r
       THEN <<[pid |-> i, doc |-> proposals[i],
               vendor_id |-> IF proposals[i].vendor_id \in DOMAIN vendors
                             THEN proposals[i].vendor_id ELSE Null]>>
            \o Populated(r, i + 1)
       ELSE Populated(r, i + 1)

\* proposals.map(p => ({ _id: p._id, vendor_id: { _id: p.vendor_id._id, ... }, ... })):
\* None when reading _id of a null vendor throws
MapProposals(docs) ==
  IF \E i \in DOMAIN docs : docs[i].vendor_id = Null THEN None
  ELSE Some([i \in DOMAIN docs |->
               [id |-> docs[i].pid, vendor_id |-> docs[i].vendor_id,
                raw_email_content |-> docs[i].doc.raw_email_content,
                parsed_data |-> docs[i].doc.parsed_data, status |-> docs[i].doc.status]])

\* the responses of getComparison (analysis and recommendation are None for
\* null, proposal_count is the length of proposals); an error thrown by the handler reaches the
\* error middleware, which answers 404 for NotFoundError and 500 otherwise
Response(st, props, an, rec, sm) ==
  [status |-> st, proposals |-> props, analysis |-> an, recommendation |-> rec,
   summary |-> sm]

NotFound == Response(404, <<>>, None, None, "RFP not found")
Unexpected == Response(500, <<>>, None, None, "An unexpected error occurred")

\* the response of the catch block
Fallback(docs, reply) ==
  IF MapProposals(docs) = None THEN Unexpected
  ELSE Response(200, MapProposals(docs)[1], None, None,
                "AI comparison is temporarily unavailable. Please review proposals manually.")

\* getComparison starts: RFP.findById answers
CmpFindRFP(r) ==
  /\ cmp.pc \in {"idle", "done"}
  /\ cmp' = IF rfps[r].status = "none"
            THEN [IdleCmp EXCEPT !.pc = "done", !.rfpId = r, !.response = Some(NotFound),
                                 !.runs = cmp.runs + 1]
            ELSE [IdleCmp EXCEPT !.pc = "find", !.rfpId = r, !.runs = cmp.runs + 1]
  /\ UNCHANGED <<vendors, rfps, proposals, now, flow, started, reparse, call, batch>>

\* variant: the oracle is asked even when the request has no records
CmpFindProposalsAlwaysCompare ==
  /\ cmp.pc = "find"
  /\ cmp' = [cmp EXCEPT !.pc = "compare", !.docs = Populated(cmp.rfpId, 1)]
  /\ UNCHANGED <<vendors, rfps, proposals, now, flow, started, reparse, call, batch>>

\* the populated find answers; without records the empty response is sent
CmpFindProposals ==
  /\ cmp.pc = "find"
  /\ LET docs == Populated(cmp.rfpId, 1)
     IN cmp' = IF docs = <<>>
               THEN [cmp EXCEPT !.pc = "done",
                       !.response = Some(Response(200, <<>>, None, None,
                          "No proposals have been received yet for this RFP."))]
               ELSE [cmp EXCEPT !.pc = "compare", !.docs = docs]
  /\ UNCHANGED <<vendors, rfps, proposals, now, flow, started, reparse, call, batch>>

\* compareProposals returns or throws, and the response is built
CmpCompare(reply) ==
  /\ cmp.pc = "compare"
  /\ LET comparison == compareProposals(reply)
     IN cmp' = [cmp EXCEPT
          !.pc = "done", !.reply = Some(reply), !.failed = (comparison = None),
          !.comparison = comparison,
          !.response =
            IF comparison = None THEN Some(Fallback(cmp.docs, reply))
            ELSE IF MapProposals(cmp.docs) = None THEN Some(Unexpected)
            ELSE Some(Response(200, MapProposals(cmp.docs)[1],
                               Some(comparison[1].proposal_analysis),
                               Some(comparison[1].recommendation), comparison[1].summary))]
  /\ UNCHANGED <<vendors, rfps, proposals, now, flow, started, reparse, call, batch>>

(* --------------------------- re-parse script --------------------------- *)
\* Proposal.find({$or: [{status: 'received'}, {parsed_data: null}, ...]}):
\* the matching documents as loaded, in store order
RECURSIVE Matching(_)
Matching(i) ==
  IF i > Len(proposals) THEN <<>>
  ELSE IF proposals[i].status = "received" \/ proposals[i].parsed_data = None
       THEN <<[pid |-> i, doc |-> proposals[i]]>> \o Matching(i + 1)
       ELSE Matching(i + 1)

\* the loop moves on to the next loaded document; the script exits after the last
NextDocument(rp) ==
  [rp EXCEPT !.queue = Tail(@), !.parsed = None,
             !.pc = IF Len(rp.queue) = 1 THEN "idle" ELSE "loop"]

\* reparseProposals starts: the find answers
ReparseFind ==
  /\ reparse.pc = "idle"
  /\ LET docs == Matching(1)
     IN reparse' = [pc |-> IF docs = <<>> THEN "idle" ELSE "loop", queue |-> docs,
                    parsed |-> None, runs |-> reparse.runs + 1]
  /\ UNCHANGED <<vendors, rfps, proposals, now, flow, started, call, cmp, batch>>

\* one iteration up to the save: skipped without a body, dropped when parsing throws
ReparseParse(reply) ==
  /\ reparse.pc = "loop"
  /\ LET raw == Head(reparse.queue).doc.raw_email_content
         parsedData == parseProposal(ObjectArg(raw), reply)
     IN reparse' = IF raw.body = "" \/ parsedData = None
                   THEN NextDocument(reparse)
                   ELSE [reparse EXCEPT !.parsed = parsedData, !.pc = "save"]
  /\ UNCHANGED <<vendors, rfps, proposals, now, flow, started, call, cmp, batch>>

\* variant: the save inserts the parsed document as a new record
ReparseSaveAsNew ==
  /\ reparse.pc = "save"
  /\ LET cur == Head(reparse.queue)
     IN proposals' = Append(proposals, ApplyParsed(cur.doc, reparse.parsed[1], now))
  /\ reparse' = NextDocument(reparse)
  /\ UNCHANGED <<vendors, rfps, now, flow, started, call, cmp, batch>>

\* "Update proposal": proposal.save() of the loaded document
ReparseSave ==
  /\ reparse.pc = "save"
  /\ LET cur == Head(reparse.queue)
         assigned == ApplyParsed(cur.doc, reparse.parsed[1], now)
     IN proposals' = [proposals EXCEPT ![cur.pid] = SaveDoc(@, cur.doc, assigned)]
  /\ reparse' = NextDocument(reparse)
  /\ UNCHANGED <<vendors, rfps, now, flow, started, call, cmp, batch>>

\* one iteration of the loop on the document loaded as record pid, the oracle
\* answering reply: the store after it
ReparseOne(store, loaded, pid, reply, t) ==
  LET parsedData == parseProposal(ObjectArg(loaded.raw_email_content), reply)
  IN IF loaded.raw_email_content.body = "" \/ parsedData = None THEN store
     ELSE [store EXCEPT ![pid] = SaveDoc(@, loaded, ApplyParsed(loaded, parsedData[1], t))]

\* the loop over the documents the find returned (loaded), from position i on
RECURSIVE ReparseFrom(_, _, _, _, _)
ReparseFrom(store, loaded, oracle, t, i) ==
  IF i > Len(loaded) THEN store
  ELSE IF loaded[i].status = "received" \/ loaded[i].parsed_data = None
       THEN ReparseFrom(ReparseOne(store, loaded[i], i, oracle[i], t), loaded, oracle, t, i + 1)
       ELSE ReparseFrom(store, loaded, oracle, t, i + 1)

\* a whole run of reparseProposals on store with nothing else running; oracle
\* gives the answer to the parse of each record
reparseProposals(store, oracle, t) == ReparseFrom(store, store, oracle, t, 1)

\* the schema's status 'reviewed': set from outside the backend (manual review)
reviewProposal(i) ==
  /\ i \in DOMAIN proposals
  /\ proposals[i].status \in {"received", "parsed"}
  /\ proposals' = [proposals EXCEPT ![i].status = "reviewed"]
  /\ UNCHANGED <<vendors, rfps, now, flow, started, reparse, call, cmp, batch>>

Reparse ==
  \/ ReparseFind
  \/ \E reply \in OracleReplies : ReparseParse(reply)
  \/ ReparseSave

\* the store a handler of the given kind leaves behind when it handles email
\* from the current state with nothing else running, the oracle answering
\* reply and the fallback lookup returning r (Null: nothing found)
HandlerEffect(kind, email, reply, r) ==
  LET v == IF email.from = NoAddress THEN Null ELSE findVendorCallback(email.from)
      tag == RfpIdMatch(email.subject)
      c == CorrelationResult(IF tag # Null \/ v = Null THEN tag ELSE r, v, email.from)
      doc == NewProposal(c.rfpId, c.vendorId, email)
      arg == IF kind = "poll" THEN StringArg(email.body) ELSE ObjectArg(email)
      parsedData == parseProposal(arg, reply)
      saved == IF parsedData # None THEN ApplyParsed(doc, parsedData[1], now)
               ELSE ApplyFailed(doc)
      known == c.rfpId \in RfpIds /\ rfps[c.rfpId].status # "none"
      unchanged == [proposals |-> proposals, rfps |-> rfps]
  IN IF kind = "webhook" /\ (email.from = NoAddress \/ email.subject = <<>> \/ email.body = "")
     THEN unchanged
     ELSE IF CorrelationFailed(c) \/ FindProposal(c.rfpId, c.vendorId) # 0 THEN unchanged
     ELSE [proposals |-> Append(proposals, saved),
           rfps |-> IF known /\ (kind = "webhook" \/ rfps[c.rfpId].status = "sent")
                    THEN [rfps EXCEPT ![c.rfpId].status = "receiving_proposals"]
                    ELSE rfps]

\* the stores the handler can leave behind: one per document the fallback
\* lookup may return
HandlerEffects(kind, email, reply) ==
  LET v == IF email.from = NoAddress THEN Null ELSE findVendorCallback(email.from)
      found == IF v = Null THEN {} ELSE findRFPCallback(v)
  IN { HandlerEffect(kind, email, reply, r) : r \in IF found = {} THEN {Null} ELSE found }

\* one step of an inbound handler in flight, the parse step apart
HandleStore(f) ==
  \/ FindVendor(f)
  \/ FindRFP(f)
  \/ FindExisting(f)
  \/ Insert(f)
  \/ SaveParsed(f)
  \/ UpdateRFP(f)
  \/ SaveRFP(f)
  \/ Populate(f)

\* one step of an inbound handler in flight; the oracle call as a whole
Handle(f) ==
  \/ HandleStore(f)
  \/ \E reply \in OracleReplies : Parse(f, reply)

\* the argument the handler passes to parseProposal
OracleArg(fl) ==
  IF fl.kind = "poll" THEN StringArg(fl.email.body) ELSE ObjectArg(fl.email)

\* parseProposal reaches makeCompletionRequest
ParseCalls(f) ==
  /\ flow[f].pc = "parse"
  /\ ~BodyMissing(OracleArg(flow[f]))
  /\ call.owner # started
  /\ StartCall("parseProposal", started)

\* parseProposal throws before any request is made
ParseRejects(f) ==
  /\ BodyMissing(OracleArg(flow[f]))
  /\ \E o \in Contents : Parse(f, o.content)

\* makeCompletionRequest has returned or thrown: parseProposal goes on
ParseReturns(f) ==
  /\ call.owner = started
  /\ call.pc \in {"returned", "thrown"}
  /\ Parse(f, ReplyOf(call))

(* ------------------------- mailbox fetch (IMAP) ------------------------- *)
\* a fetched message as mailparser hands it over: parses is FALSE when
\* simpleParser reports an error; address is from.value[0].address and
\* fromText the address inside from.text (NoAddress when absent)
Mail(ok, address, fromText, subject, text, html) ==
  [parses |-> ok, address |-> address, fromText |-> fromText, subject |-> subject,
   text |-> text, html |-> html]

Unparseable == Mail(FALSE, NoAddress, NoAddress, <<>>, "", "")

Mails ==
  { Mail(TRUE, <<"V", "1", "@", "X">>, NoAddress, sub, "quote", "") :
      sub \in { <<Word>>, <<Word, Tag("RFP", "a1")>> } }
  \cup { Mail(TRUE, NoAddress, <<"v", "2", "@", "x">>, <<Word, Tag("RFP", "a1")>>, "", "quote"),
         Mail(TRUE, NoAddress, NoAddress, <<Word, Tag("RFP", "a1")>>, "quote", ""),
         Unparseable }

\* extractEmailData(mail)
extractEmailData(mail) ==
  [from |-> IF mail.address # NoAddress THEN mail.address ELSE mail.fromText,
   subject |-> mail.subject,
   body |-> IF mail.text # "" THEN mail.text ELSE mail.html]

\* the simpleParser callback of message i runs in its own handler slot
FlowOrder == <<"f1", "f2">>
FlowOf(i) == FlowOrder[i]

\* the unseen messages one search can return
Batches ==
  UNION { [1..n -> Mails] : n \in 1..Len(FlowOrder) }

\* message i has been fetched and its simpleParser callback has not run yet
Pending(i) == flow[FlowOf(i)].pc = "idle" /\ i \notin batch.skipped

\* emailCount: the callbacks whose onEmailReceived has returned
EmailCount ==
  Cardinality({i \in DOMAIN batch.msgs : flow[FlowOf(i)].pc = "done"})

\* fetchUnreadEmails: the search returns msgs and imap.fetch is issued
FetchUnread(msgs) ==
  /\ batch.pc \in {"idle", "ended"}
  /\ \A i \in DOMAIN batch.msgs : ~Pending(i) /\ flow[FlowOf(i)].pc \in {"idle", "done"}
  /\ batch' = [pc |-> "fetching", msgs |-> msgs, skipped |-> {}, resolved |-> None,
               fetches |-> batch.fetches + 1]
  /\ flow' = [f \in Flows |-> IdleFlow]
  /\ UNCHANGED <<vendors, rfps, proposals, now, started, reparse, call, cmp>>

\* variant: an unparseable message ends the handling of the whole batch
MailParseErrorAborts(i) ==
  /\ batch.pc \in {"fetching", "ended"}
  /\ i \in DOMAIN batch.msgs /\ Pending(i)
  /\ ~batch.msgs[i].parses
  /\ batch' = [batch EXCEPT !.skipped = @ \cup {j \in DOMAIN batch.msgs : Pending(j)}]
  /\ UNCHANGED <<vendors, rfps, proposals, now, flow, started, reparse, call, cmp>>

\* simpleParser calls back with err: the error is logged, nothing else happens
MailParseError(i) ==
  /\ batch.pc \in {"fetching", "ended"}
  /\ i \in DOMAIN batch.msgs /\ Pending(i)
  /\ ~batch.msgs[i].parses
  /\ batch' = [batch EXCEPT !.skipped = @ \cup {i}]
  /\ UNCHANGED <<vendors, rfps, proposals, now, flow, started, reparse, call, cmp>>

\* simpleParser calls back with the mail: extractEmailData, then
\* onEmailReceived(emailData) runs processReceivedEmail up to its first await
MailParsed(i) ==
  /\ batch.pc \in {"fetching", "ended"}
  /\ i \in DOMAIN batch.msgs /\ Pending(i)
  /\ batch.msgs[i].parses
  /\ Begin(FlowOf(i), "poll", extractEmailData(batch.msgs[i]))

\* fetch.once('end'): every message has been emitted; the promise resolves
\* with the count reached so far
FetchEnd ==
  /\ batch.pc = "fetching"
  /\ batch' = [batch EXCEPT !.pc = "ended", !.resolved = Some(EmailCount)]
  /\ UNCHANGED <<vendors, rfps, proposals, now, flow, started, reparse, call, cmp>>

\* variant: the exception leaves processReceivedEmail
ThrownEscapes(fl) == Finish(fl, "uncaught_exception", 0)

\* the outcome of a handler whose store operation threw outside correlation
Thrown(fl) ==
  Finish(fl, IF fl.kind = "poll" THEN "processing_error" ELSE "500_unexpected", 0)

\* a store operation of handler f throws (connection lost, validation, ...):
\* inside correlateEmailToRFP the error is logged and the lookup counts as
\* empty; a failed save of the parsed record is retried by the catch block with
\* requires_review set; every other error reaches the handler's outer catch
\* (poll) or the error middleware (webhook)
StoreFails(f) ==
  /\ flow[f].pc \in {"findVendor", "findRFP", "findExisting", "insert", "saveParsed",
                     "updateRFP", "saveRFP"}
  /\ LET fl == flow[f]
         loaded == NewProposal(fl.rfpId, fl.vendorId, fl.email)
     IN IF fl.pc = "findVendor"
        THEN /\ flow' = [flow EXCEPT ![f] = AfterCorrelation(fl, fl.rfpId, Null)]
             /\ proposals' = proposals
        ELSE IF fl.pc = "findRFP"
        THEN /\ flow' = [flow EXCEPT ![f] = AfterCorrelation(fl, Null, fl.vendorId)]
             /\ proposals' = proposals
        ELSE IF fl.pc = "saveParsed" /\ fl.parsed # None
        THEN \/ /\ proposals' = [proposals EXCEPT ![fl.pid] =
                     SaveDoc(@, loaded, ApplyFailed(ApplyParsed(loaded, fl.parsed[1], now)))]
                /\ flow' = [flow EXCEPT ![f].pc = "updateRFP"]
             \/ /\ proposals' = proposals
                /\ flow' = [flow EXCEPT ![f] = Thrown(fl)]
        ELSE /\ flow' = [flow EXCEPT ![f] = Thrown(fl)]
             /\ proposals' = proposals
  /\ UNCHANGED <<vendors, rfps, now, started, reparse, call, cmp, batch>>

Kinds == {"poll", "webhook"}
Dispatches == {<<ids, ok>> \in (SUBSET VendorIds) \X (SUBSET VendorIds) : ok \subseteq ids}

\* The pipeline with overlapping inbound handlers: mailbox polls, manual
\* fetches and webhook calls all await the store and the oracle.
Next ==
  \/ /\ started < MaxEmails
     /\ \E f \in Flows, kind \in Kinds, e \in PipelineEmails : Begin(f, kind, e)
  \/ \E f \in Flows : Handle(f)
  \/ \E r \in RfpIds : createRFP(r)
  \/ /\ now < MaxPipelineSends
     /\ \E r \in RfpIds, d \in Dispatches : sendRFP(r, d[1], d[2])

Spec == Init /\ [][Next]_vars

\* The pipeline with one inbound email at a time, each handled start to finish,
\* beside the re-parse script (a process of its own) and the closing of requests.
NextSeq ==
  \/ /\ started < MaxEmails
     /\ \A g \in Flows : flow[g].pc \in {"idle", "done"}
     /\ \E kind \in Kinds, e \in PipelineEmails : Begin("f1", kind, e)
  \/ Handle("f1")
  \/ \E r \in RfpIds : createRFP(r)
  \/ /\ now < MaxPipelineSends
     /\ \E r \in RfpIds, d \in Dispatches : sendRFP(r, d[1], d[2])
  \/ \E r \in RfpIds : closeRFP(r)
  \/ /\ reparse.pc = "idle" => reparse.runs < MaxReparse
     /\ Reparse

SpecSeq == Init /\ [][NextSeq]_vars

\* Correlation over every shape of inbound email and dispatch history.
NextCorr ==
  \/ /\ started < MaxCorrEmails
     /\ \E kind \in Kinds, e \in Emails : Begin("f1", kind, e)
  \/ Handle("f1")
  \/ \E r \in RfpIds : createRFP(r)
  \/ /\ now < MaxSends
     /\ \E r \in RfpIds, d \in Dispatches : sendRFP(r, d[1], d[2])
  \/ \E r \in RfpIds : closeRFP(r)

SpecCorr == Init /\ [][NextCorr]_vars

\* The AIService alone: completion requests against every upstream outcome.
Outcomes == UpstreamErrors \cup Contents

NextAI ==
  \/ /\ call.owner < MaxCalls
     /\ \E p \in Purposes : StartCall(p, call.owner + 1)
  \/ \E o \in Outcomes : Attempt(o)
  \/ Sleep
  \/ Hang

SpecAI == Init /\ [][NextAI]_vars

\* One inbound email at a time with the attempts of its oracle call spelled
\* out.  The event loop runs every continuation that is ready.
StuckOutcomes ==
  { UpstreamError(429, "", <<"Rate", "limit", "reached">>),
    UpstreamError(401, "", <<"Incorrect", "API", "key", "sk-1">>),
    Delivered(Reply("json", "ok", "number", Some(70), "array")),
    Delivered(OmitsConfidence) }

NextStuck ==
  \/ /\ started < MaxStuckEmails
     /\ \E kind \in Kinds, e \in PipelineEmails : Begin("f1", kind, e)
  \/ HandleStore("f1")
  \/ ParseCalls("f1")
  \/ ParseRejects("f1")
  \/ ParseReturns("f1")
  \/ \E o \in StuckOutcomes : Attempt(o)
  \/ Sleep
  \/ Hang
  \/ \E r \in RfpIds : createRFP(r)
  \/ /\ now < MaxPipelineSends
     /\ \E r \in RfpIds, d \in Dispatches : sendRFP(r, d[1], d[2])

SpecStuck == Init /\ [][NextStuck]_vars /\ WF_vars(NextStuck)

\* One mailbox fetch: the callbacks of its messages, the handlers they start
\* and the store failing under them.
NextBatch ==
  \/ /\ batch.fetches < MaxFetches
     /\ \E msgs \in Batches : FetchUnread(msgs)
  \/ \E i \in DOMAIN FlowOrder : MailParsed(i)
  \/ \E i \in DOMAIN FlowOrder : MailParseError(i)
  \/ FetchEnd
  \/ \E f \in Flows : FindVendor(f) \/ FindRFP(f) \/ FindExisting(f) \/ Insert(f)
  \/ \E f \in Flows : SaveParsed(f) \/ UpdateRFP(f) \/ SaveRFP(f)
  \/ \E f \in Flows, o \in Contents : Parse(f, o.content)
  \/ \E f \in Flows : StoreFails(f)
  \/ \E r \in RfpIds : createRFP(r)
  \/ /\ now < MaxPipelineSends
     /\ \E r \in RfpIds, d \in Dispatches : sendRFP(r, d[1], d[2])

SpecBatch == Init /\ [][NextBatch]_vars /\ WF_vars(NextBatch)

\* the inbound posts of the comparison runs: replies carrying a request's tag
CmpEmails == {e \in PipelineEmails : RfpIdMatch(e.subject) # Null}

\* The re-parse script run repeatedly beside the webhook and manual review.
NextScript ==
  \/ /\ started < MaxScriptEmails
     /\ \E e \in CmpEmails : Begin("f1", "webhook", e)
  \/ FindVendor("f1") \/ FindExisting("f1") \/ Insert("f1")
  \/ \E o \in Contents : Parse("f1", o.content)
  \/ SaveParsed("f1") \/ UpdateRFP("f1") \/ Populate("f1")
  \/ \E r \in RfpIds : createRFP(r)
  \/ /\ reparse.runs < MaxScriptRuns
     /\ ReparseFind
  \/ \E reply \in OracleReplies : ReparseParse(reply)
  \/ ReparseSave
  \/ \E i \in 1..MaxScriptEmails : reviewProposal(i)

SpecScript == Init /\ [][NextScript]_vars

\* Comparison beside the pipeline (one inbound email at a time) and vendor
\* management.
NextCmp ==
  \/ /\ started < MaxCmpEmails
     /\ \E e \in CmpEmails : Begin("f1", "webhook", e)
  \/ FindVendor("f1") \/ FindExisting("f1") \/ Insert("f1")
  \/ \E o \in Contents : Parse("f1", o.content)
  \/ SaveParsed("f1") \/ UpdateRFP("f1") \/ Populate("f1")
  \/ \E r \in RfpIds : createRFP(r)
  \/ \E v \in VendorIds : deleteVendor(v)
  \/ /\ cmp.runs < MaxComparisons
     /\ \E r \in RfpIds : CmpFindRFP(r)
  \/ CmpFindProposals
  \/ \E reply \in CompareReplies : CmpCompare(reply)

SpecCmp == Init /\ [][NextCmp]_vars

\* Every operation that touches stored records, side by side: the webhook
\* (with redelivery), the re-parse script, manual review and the comparison.
NextRecords ==
  \/ /\ started < MaxCmpEmails
     /\ \E e \in CmpEmails : Begin("f1", "webhook", e)
  \/ FindVendor("f1") \/ FindExisting("f1") \/ Insert("f1")
  \/ \E o \in Contents : Parse("f1", o.content)
  \/ SaveParsed("f1") \/ UpdateRFP("f1") \/ Populate("f1")
  \/ \E r \in RfpIds : createRFP(r)
  \/ /\ reparse.runs < MaxReparse
     /\ ReparseFind
  \/ \E o \in Contents : ReparseParse(o.content)
  \/ ReparseSave
  \/ \E i \in 1..MaxCmpEmails : reviewProposal(i)
  \/ /\ cmp.runs < MaxComparisons
     /\ \E r \in RfpIds : CmpFindRFP(r)
  \/ CmpFindProposals
  \/ \E k \in {"error", "json"} :
       CmpCompare(CompareReply(k, GoodAnalysis, GoodRecommendation, "ok"))

SpecRecords == Init /\ [][NextRecords]_vars

(* ------------------------------- claims -------------------------------- *)
RecordsFor(r, v) ==
  {i \in DOMAIN proposals : proposals[i].rfp_id = r /\ proposals[i].vendor_id = v}

AtMostOnePerPair ==
  \A r \in RfpIds, v \in VendorIds : Cardinality(RecordsFor(r, v)) <= 1

DuplicateOutcomes == {"duplicate_proposal", "409_duplicate"}
SuccessOutcomes == {"success", "201_created"}
AfterSave == {"updateRFP", "saveRFP", "populate"}

\* C1: with the inbound emails handled one after another, a delivery whose
\* (request, responder) pair already has a record ends with the duplicate
\* outcome naming that record and leaves the Proposal store as it was, and no
\* pair ever has more than one record.
C1_SequentialRedeliveryIsDuplicate ==
  /\ []AtMostOnePerPair
  /\ [][\A f \in Flows :
          (/\ flow[f].pc = "findExisting"
           /\ flow'[f].pc # "findExisting"
           /\ FindProposal(flow[f].rfpId, flow[f].vendorId) # 0)
          => /\ proposals' = proposals
             /\ flow'[f].pc = "done"
             /\ flow'[f].result \in DuplicateOutcomes
             /\ flow'[f].proposalId \in RecordsFor(flow[f].rfpId, flow[f].vendorId)]_vars

C1_Witness ==
  /\ flow["f1"].pc = "done"
  /\ flow["f1"].result \in DuplicateOutcomes
  /\ started = 2
  /\ Cardinality(RecordsFor(flow["f1"].rfpId, flow["f1"].vendorId)) = 1

\* C2: in every reachable state, overlapping inbound handlers included, there
\* is at most one Response Record per (request_id, responder_id).
C2_AtMostOneRecordPerPair ==
  \A r \in RfpIds, v \in VendorIds :
    \A i, j \in RecordsFor(r, v) : i = j

\* C3: once a handler (poll or webhook) has stored the outcome of its parse
\* attempt for an email with a non-empty body to which the oracle answers
\* schema-valid output, its record is parsed with structured data, confidence
\* and parsed timestamp set.
C3_ValidOutputEndsParsed ==
  \A f \in Flows :
    (flow[f].pc \in AfterSave /\ flow[f].email.body # "" /\ flow[f].oracleValid)
    => LET p == proposals[flow[f].pid]
       IN /\ p.status = "parsed"
          /\ p.parsed_data # None
          /\ p.parsing_confidence # None
          /\ p.parsed_at # None

\* C4: after a failed parse attempt the handler's record is still in status
\* received with requires_review true, and the handler then ends with success
\* and the id of that record.
C4_FailedParseKeepsReceived ==
  /\ [](\A f \in Flows :
          (flow[f].pc \in AfterSave /\ flow[f].parsed = None)
          => /\ proposals[flow[f].pid].status = "received"
             /\ proposals[flow[f].pid].requires_review)
  /\ [][\A f \in Flows :
          (flow[f].pc \in AfterSave /\ flow[f].parsed = None /\ flow'[f].pc = "done")
          => /\ flow'[f].result \in SuccessOutcomes
             /\ flow'[f].proposalId = flow[f].pid]_vars

C4_Witness ==
  \E f \in Flows :
    /\ flow[f].pc \in AfterSave
    /\ flow[f].kind = "webhook"
    /\ flow[f].calls = 1
    /\ flow[f].parsed = None
    /\ proposals[flow[f].pid].requires_review

\* C5: when a handler makes its oracle call, the record with the raw email is
\* already stored in status received, and a record with that raw email exists
\* at every later point of the handling.
C5_RecordBeforeOracleCall ==
  /\ [][\A f \in Flows :
          flow'[f].calls > flow[f].calls
          => /\ flow[f].pid \in DOMAIN proposals
             /\ proposals[flow[f].pid].status = "received"
             /\ proposals[flow[f].pid].raw_email_content = flow[f].email]_vars
  /\ [](\A f \in Flows :
          flow[f].calls > 0
          => /\ flow[f].pid \in DOMAIN proposals
             /\ proposals[flow[f].pid].raw_email_content = flow[f].email)

C5_Witness ==
  \E f \in Flows :
    /\ flow[f].calls = 1
    /\ flow[f].pc = "saveParsed"
    /\ proposals[flow[f].pid].status = "received"
    /\ proposals[flow[f].pid].raw_email_content.body = "quote"

\* C6: every record in status parsed has requires_review = (confidence < 0.7).
C6_ReviewFlagMatchesConfidence ==
  \A i \in DOMAIN proposals :
    proposals[i].status = "parsed"
    => /\ proposals[i].parsing_confidence # None
       /\ proposals[i].requires_review = (proposals[i].parsing_confidence[1] < 70)

\* C7: a handler whose subject carries the request tag never waits on the
\* dispatch-history lookup, and after correlation its request id is the tag's.
HasTag(f) == RfpIdMatch(flow[f].email.subject) # Null

C7_TagWinsOverDispatchHistory ==
  \A f \in Flows :
    (flow[f].pc # "idle" /\ flow[f].result # "400_missing_fields" /\ HasTag(f))
    => /\ flow[f].pc # "findRFP"
       /\ flow[f].rfpId = RfpIdMatch(flow[f].email.subject)

C7_Witness ==
  \E f \in Flows :
    /\ flow[f].pc = "findExisting"
    /\ HasTag(f)
    /\ flow[f].rfpId = "a1"
    /\ findRFPCallback(flow[f].vendorId) = {"b2"}

\* C8: the correlation reports success exactly when both ids are resolved; a
\* failure report carries the resolved id, null for the other, and the sender;
\* a polled email with no sender address and no tag fails with both ids null.
CorrelationFailures == {"correlation_failed", "400_correlation"}
Correlated(f) ==
  \/ flow[f].pc \in {"findExisting", "insert", "parse", "saveParsed"} \cup AfterSave
  \/ flow[f].pc = "done" /\ flow[f].result \in DuplicateOutcomes \cup SuccessOutcomes

C8_SuccessIffBothResolved ==
  \A f \in Flows :
    /\ flow[f].success <=> (Correlated(f) /\ flow[f].rfpId # Null /\ flow[f].vendorId # Null)
    /\ Correlated(f) => flow[f].success
    /\ (flow[f].pc = "done" /\ flow[f].result \in CorrelationFailures)
       => /\ flow[f].rfpId = Null \/ flow[f].vendorId = Null
          /\ HasTag(f) => flow[f].rfpId = RfpIdMatch(flow[f].email.subject)
          /\ (\E v \in VendorIds : vendors[v] = ToLowerCase(flow[f].email.from))
             => flow[f].vendorId # Null
    /\ (flow[f].pc = "done" /\ flow[f].kind = "poll"
        /\ flow[f].email.from = NoAddress /\ ~HasTag(f))
       => /\ flow[f].result = "correlation_failed"
          /\ flow[f].rfpId = Null
          /\ flow[f].vendorId = Null

C8_Witness ==
  /\ flow["f1"].pc = "done"
  /\ flow["f1"].result = "correlation_failed"
  /\ flow["f1"].rfpId = "a1"
  /\ flow["f1"].vendorId = Null
  /\ flow["f1"].email.from = <<"z", "9", "@", "x">>

\* C9: once the responder lookup has answered, the handler's responder is the
\* one whose stored email equals the sender up to letter case, and none when
\* no stored email does.
SameLetters(a, b) ==
  /\ Len(a) = Len(b)
  /\ \A i \in DOMAIN a : LowerChar(a[i]) = LowerChar(b[i])

C9_ResponderLookupIgnoresCase ==
  \A f \in Flows :
    (flow[f].pc \notin {"idle", "findVendor"} /\ flow[f].result # "400_missing_fields"
     /\ flow[f].email.from # NoAddress)
    => /\ \A v \in VendorIds :
            SameLetters(flow[f].email.from, RegisteredEmail(v)) => flow[f].vendorId = v
       /\ (\A v \in VendorIds : ~SameLetters(flow[f].email.from, RegisteredEmail(v)))
            => flow[f].vendorId = Null

C9_Witness ==
  \E f \in Flows :
    /\ flow[f].pc = "findExisting"
    /\ flow[f].email.from = <<"V", "1", "@", "X">>
    /\ vendors["v1"] = <<"v", "1", "@", "x">>
    /\ flow[f].vendorId = "v1"

\* C10: without a tag, the fallback lookup for responder V answers with the
\* request, among those in status sent or receiving_proposals whose dispatch
\* list contains V, that has the greatest dispatch timestamp for V, and with
\* none when there is no such request.
SentAt(r, v) ==
  LET i == CHOOSE j \in DOMAIN rfps[r].vendors : rfps[r].vendors[j].vendor_id = v
  IN rfps[r].vendors[i].sent_at

Outstanding(v) ==
  {r \in RfpIds :
     /\ rfps[r].status \in {"sent", "receiving_proposals"}
     /\ \E j \in DOMAIN rfps[r].vendors : rfps[r].vendors[j].vendor_id = v}

C10_FallbackIsLatestDispatchToResponder ==
  [][\A f \in Flows :
       (flow[f].pc = "findRFP" /\ flow'[f].pc # "findRFP")
       => LET v == flow[f].vendorId
          IN IF Outstanding(v) = {} THEN flow'[f].rfpId = Null
             ELSE /\ flow'[f].rfpId \in Outstanding(v)
                  /\ \A q \in Outstanding(v) : SentAt(q, v) <= SentAt(flow'[f].rfpId, v)]_vars

\* C11: no step moves a request to an earlier status of
\* draft -> sent -> receiving_proposals -> closed.
StatusRank(s) ==
  CASE s = "none" -> 0
    [] s = "draft" -> 1
    [] s = "sent" -> 2
    [] s = "receiving_proposals" -> 3
    [] s = "closed" -> 4

C11_StatusOnlyAdvances ==
  [][\A r \in RfpIds : StatusRank(rfps[r].status) <= StatusRank(rfps'[r].status)]_vars

\* C12: the status update that follows the creation of a record (poll or
\* webhook) sets the request to receiving_proposals when it was sent and
\* leaves a request in any other status as it was.
UpdatesStatus(f) ==
  \/ flow[f].pc = "updateRFP" /\ flow'[f].pc \notin {"updateRFP", "saveRFP"}
  \/ flow[f].pc = "saveRFP" /\ flow'[f].pc # "saveRFP"

C12_CollectingOnlyFromSent ==
  [][\A f \in Flows :
       (UpdatesStatus(f) /\ flow[f].rfpId \in RfpIds)
       => LET before == rfps[flow[f].rfpId].status
              after == rfps'[flow[f].rfpId].status
          IN IF before = "sent" THEN after = "receiving_proposals" ELSE after = before]_vars

\* C13: one completion request makes at most 4 upstream attempts, has waited
\* 1000, 2000 and 4000 ms before its 1st, 2nd and 3rd retry, and the answer to
\* the 4th attempt ends it with a result or a mapped error.
Last(seq) == seq[Len(seq)]
Finished == {"returned", "thrown"}

C13_FourAttemptsDoublingWaits ==
  /\ call.attempts <= 4
  /\ call.waits = SubSeq(<<1000, 2000, 4000>>, 1, Len(call.waits))
  /\ call.pc = "attempt" => Len(call.waits) = call.attempts
  /\ call.pc \in {"sleep", "hung"} \cup Finished => Len(call.waits) = call.attempts - 1
  /\ (call.attempts = 4 /\ call.pc # "hung") => call.pc \in Finished
  /\ call.pc = "returned" => call.content # None
  /\ call.pc = "thrown" => call.error # None

C13_Witness ==
  /\ call.pc = "thrown"
  /\ call.attempts = 4
  /\ call.waits = <<1000, 2000, 4000>>

\* C14: a failure is retried only if it is HTTP 429, a 5xx, ECONNRESET or
\* ETIMEDOUT, or has "timeout" in its message; any other failure ends the call
\* in the same step with no wait and no later attempt, on any attempt.
ClaimRetryable(e) ==
  \/ e.status = 429
  \/ e.status \in 500..599
  \/ e.code \in {"ECONNRESET", "ETIMEDOUT"}
  \/ \E i \in DOMAIN e.message : e.message[i] = "timeout"

C14_OnlyRetryableIsRetried ==
  /\ [][(call.pc = "attempt" /\ call'.attempts = call.attempts + 1
         /\ Last(call'.log).kind = "error")
        => /\ call'.pc = "sleep" => ClaimRetryable(Last(call'.log))
           /\ ~ClaimRetryable(Last(call'.log))
              => /\ call'.pc = "thrown"
                 /\ call'.waits = call.waits]_vars
  /\ [][call.pc = "thrown" => (call'.owner # call.owner \/ call' = call)]_vars

C14_Witness ==
  /\ call.pc = "thrown"
  /\ call.attempts = 2
  /\ call.log[1].status = 429
  /\ call.log[2].status = 401
  /\ call.waits = <<1000>>

\* C15: k retryable failures (0 <= k <= 3) followed by a delivered completion
\* return that completion after exactly k + 1 attempts and the first k waits;
\* up to three retryable failures in a row do not end the call.
RetryableFailures(log, k) ==
  \A i \in 1..k : log[i].kind = "error" /\ ClaimRetryable(log[i])

C15_SuccessAfterRetryableFailures ==
  \A k \in 0..3 :
    /\ (Len(call.log) = k + 1 /\ RetryableFailures(call.log, k)
        /\ call.log[k + 1].kind = "content")
       => /\ call.pc = "returned"
          /\ call.content = Some(call.log[k + 1].content)
          /\ call.attempts = k + 1
          /\ call.waits = SubSeq(<<1000, 2000, 4000>>, 1, k)
    /\ (k >= 1 /\ Len(call.log) = k /\ RetryableFailures(call.log, k))
       => call.pc \in {"sleep", "attempt"}

C15_Witness ==
  /\ call.pc = "returned"
  /\ call.attempts = 3
  /\ call.log[1].status = 429
  /\ call.log[2].status = 429
  /\ call.waits = <<1000, 2000>>

\* C16: the error a failed completion request leaves the adapter with is one
\* of five fixed categories and carries no word of the upstream message, also
\* in the response createRFP gives; upstream failures that differ only in
\* their message text leave with the same error.
CategoryHeads ==
  { "Invalid OpenAI API key",
    "OpenAI API rate limit exceeded. Please try again later.",
    "OpenAI service is temporarily unavailable. Please try again later.",
    "Request to OpenAI timed out. Please try again.",
    "AI service error:" }

Words(msg) == {msg[i] : i \in DOMAIN msg}

C16_FiveCategoriesNoRawMessage ==
  call.pc = "thrown"
  => LET e == Last(call.log)
         out == call.error[1]
     IN /\ out[1] \in CategoryHeads
        /\ Words(out) \cap Words(e.message) = {}
        /\ call.purpose = "structureRFP"
           => Words(createRFPFailure(out).details) \cap Words(e.message) = {}
        /\ \A e2 \in UpstreamErrors :
             (/\ e2.status = e.status /\ e2.code = e.code
              /\ ClaimRetryable(e2) = ClaimRetryable(e))
             => handleError(e2) = out

\* C17: a delivered completion that is not JSON gives the malformed-output
\* error, which no upstream failure maps to, and the call makes no further
\* attempt.
C17_MalformedOutputNotRetried ==
  /\ [](call.pc = "returned" /\ parseJSONResponse(call.content[1]) = None
        => /\ AdapterError(call) = Some(MalformedOutput)
           /\ \A e \in UpstreamErrors : handleError(e) # AdapterError(call)[1]
           /\ AdapterError(call)[1][1] \notin CategoryHeads
           /\ Last(call.log).kind = "content")
  /\ [][call.pc = "returned"
        => (call'.owner # call.owner \/ call'.attempts = call.attempts)]_vars

C17_Witness ==
  /\ call.pc = "returned"
  /\ call.content[1].kind = "nonjson"
  /\ call.attempts = 2
  /\ AdapterError(call) = Some(MalformedOutput)

\* C18: a handler that has reached its parse step always finishes, also when
\* an oracle attempt never answers; the stuck extraction leaves the record in
\* received with requires_review = true.
C18_StuckExtractionTerminates ==
  \A f \in Flows :
    (flow[f].pc = "parse")
    ~> (/\ flow[f].pc = "done"
        /\ (Len(call.log) > 0 /\ Last(call.log).kind = "never")
           => /\ proposals[flow[f].proposalId].status = "received"
              /\ proposals[flow[f].proposalId].requires_review)

\* C19: getComparison for an existing request always ends with a structured
\* 200 response, whatever the records, the vendor directory and the oracle.
C19_ComparisonAlwaysRenderable ==
  (cmp.pc = "done" /\ cmp.response # Some(NotFound))
  => cmp.response[1].status = 200

\* C20: when the oracle's comparison lacks the analysis list, the
\* recommendation's vendor id or the summary, compareProposals throws and the
\* response lists every record of the request with analysis and
\* recommendation null.
LacksRequired(reply) ==
  /\ reply.kind = "json"
  /\ \/ reply.proposal_analysis.shape \in {"missing", "not_array"}
     \/ ~reply.recommendation.present \/ reply.recommendation.vendor_id = ""
     \/ reply.summary = "missing"

C20_RejectedAnalysisFallsBack ==
  /\ [](cmp.pc = "done" /\ cmp.reply # None /\ LacksRequired(cmp.reply[1])
        => /\ cmp.failed
           /\ cmp.response[1].status = 200
           /\ Len(cmp.response[1].proposals) = Len(cmp.docs)
           /\ \A i \in DOMAIN cmp.docs :
                /\ cmp.response[1].proposals[i].id = cmp.docs[i].pid
                /\ cmp.response[1].proposals[i].raw_email_content
                     = proposals[cmp.docs[i].pid].raw_email_content
           /\ cmp.response[1].analysis = None
           /\ cmp.response[1].recommendation = None)
  /\ [][(cmp.pc = "find" /\ cmp'.pc # "find")
        => {cmp'.docs[i].pid : i \in DOMAIN cmp'.docs}
             = {i \in DOMAIN proposals : proposals[i].rfp_id = cmp.rfpId}]_vars

\* C21: a comparison of a request with no response records answers 200 with
\* an empty record list, null analysis and recommendation and the explicit
\* "no proposals" summary, and the oracle is never asked.
NoProposalsYet ==
  Response(200, <<>>, None, None, "No proposals have been received yet for this RFP.")

C21_EmptyComparisonSkipsOracle ==
  /\ [][(cmp.pc = "find" /\ cmp'.pc # "find"
          /\ \A i \in DOMAIN proposals : proposals[i].rfp_id # cmp.rfpId)
        => /\ cmp'.pc = "done"
           /\ cmp'.response = Some(NoProposalsYet)
           /\ cmp'.reply = None /\ cmp'.comparison = None]_vars
  /\ [](cmp.pc = "done" /\ cmp.docs = <<>> => cmp.reply = None)

C21_Witness ==
  /\ cmp.pc = "done" /\ cmp.rfpId # Null
  /\ rfps[cmp.rfpId].status # "none"
  /\ cmp.response = Some(NoProposalsYet)
  /\ Len(proposals) > 0

\* C22: a comparison the oracle returns with every required field present is
\* accepted; in the result every strengths, weaknesses and red_flags is a
\* list (one that was absent or not a list is the empty list, a list is kept)
\* and the recommendation confidence is in [0, 1] (0.8 when it was absent,
\* not a number or out of range, kept otherwise).
IsList(l) == l \in {"list", "empty_list"}

C22_ComparisonCoercions ==
  (cmp.pc = "done" /\ cmp.reply # None /\ ~ComparisonRejected(cmp.reply[1]))
  => /\ ~cmp.failed /\ cmp.comparison # None
     /\ LET given == cmp.reply[1]
            result == cmp.comparison[1]
        IN /\ Len(result.proposal_analysis) = Len(given.proposal_analysis.entries)
           /\ \A i \in DOMAIN result.proposal_analysis :
                LET e == given.proposal_analysis.entries[i]
                    c == result.proposal_analysis[i]
                IN /\ IsList(c.strengths) /\ IsList(c.weaknesses) /\ IsList(c.red_flags)
                   /\ c.strengths = (IF e.strengths = "list" THEN "list" ELSE "empty_list")
                   /\ c.weaknesses = (IF e.weaknesses = "list" THEN "list" ELSE "empty_list")
                   /\ c.red_flags = (IF e.red_flags = "list" THEN "list" ELSE "empty_list")
                   /\ c.vendor_id = e.vendor_id
           /\ result.recommendation.confidence \in 0..100
           /\ result.recommendation.confidence =
                (IF given.recommendation.confidence # None
                    /\ given.recommendation.confidence[1] \in 0..100
                 THEN given.recommendation.confidence[1] ELSE 80)
           /\ result.recommendation.vendor_id = given.recommendation.vendor_id

C22_Witness ==
  /\ cmp.pc = "done" /\ cmp.reply # None /\ cmp.comparison # None
  /\ cmp.reply[1].recommendation.confidence = None
  /\ cmp.reply[1].proposal_analysis.entries[1].strengths = "string"
  /\ cmp.reply[1].proposal_analysis.entries[1].weaknesses = "missing"
  /\ cmp.comparison[1].recommendation.confidence = 80
  /\ cmp.comparison[1].proposal_analysis[1].strengths = "empty_list"
  /\ cmp.response[1].status = 200

\* the responders in a dispatch list
Listed(list) == {list[i].vendor_id : i \in DOMAIN list}

\* the timestamp of responder v in a dispatch list that holds it
StampOf(list, v) == list[CHOOSE i \in DOMAIN list : list[i].vendor_id = v].sent_at

\* C23: a request's dispatch list holds at most one entry per responder; a
\* dispatch sets the timestamp of the entries of responders already listed
\* without changing the length, appends one entry per new responder, and no
\* step removes or moves an entry.
C23_DispatchListUpsert ==
  /\ [](\A r \in RfpIds : \A i, j \in DOMAIN rfps[r].vendors :
          rfps[r].vendors[i].vendor_id = rfps[r].vendors[j].vendor_id => i = j)
  /\ [][\A r \in RfpIds :
          /\ Len(rfps'[r].vendors) >= Len(rfps[r].vendors)
          /\ \A i \in DOMAIN rfps[r].vendors :
               rfps'[r].vendors[i].vendor_id = rfps[r].vendors[i].vendor_id]_vars
  /\ [][\A r \in RfpIds, d \in Dispatches :
          sendRFP(r, d[1], d[2])
          => /\ Len(rfps'[r].vendors)
                  = Len(rfps[r].vendors) + Cardinality(d[2] \ Listed(rfps[r].vendors))
             /\ \A v \in d[2] : /\ v \in Listed(rfps'[r].vendors)
                                 /\ StampOf(rfps'[r].vendors, v) = now']_vars

C23_Witness ==
  \E r \in RfpIds :
    /\ Len(rfps[r].vendors) = 2
    /\ rfps[r].vendors[1].sent_at > rfps[r].vendors[2].sent_at

\* C24: a dispatch leaves the responders whose send failed, and those not asked
\* for, as they were in the list (absent stays absent, a listed one keeps its
\* timestamp) and records each responder whose send succeeded.
C24_OnlySuccessfulSendsRecorded ==
  [][\A r \in RfpIds, d \in Dispatches :
       sendRFP(r, d[1], d[2])
       => /\ \A v \in VendorIds \ d[2] :
               /\ v \in Listed(rfps'[r].vendors) <=> v \in Listed(rfps[r].vendors)
               /\ v \in Listed(rfps[r].vendors)
                    => StampOf(rfps'[r].vendors, v) = StampOf(rfps[r].vendors, v)
          /\ \A v \in d[2] : /\ v \in Listed(rfps'[r].vendors)
                              /\ StampOf(rfps'[r].vendors, v) = now']_vars

\* two dispatches on the only request: the first recorded one responder, the
\* second recorded nothing
C24_Witness ==
  /\ now = 2
  /\ rfps["a1"].status = "sent" /\ rfps["b2"].status = "none"
  /\ Len(rfps["a1"].vendors) = 1 /\ rfps["a1"].vendors[1].sent_at = 1

InFlight(f) == flow[f].pc \notin {"idle", "done"}

\* C26: the messages of one mailbox fetch are handled one after another: at
\* most one of their handlers is between its start and its return.
C26_BatchHandledOneAtATime ==
  batch.pc # "idle" => Cardinality({f \in Flows : InFlight(f)}) <= 1

\* every message of the fetch has its outcome: the handler of a parseable
\* message has returned, the parse error of the others has been logged
Settled ==
  \A i \in DOMAIN batch.msgs :
    IF batch.msgs[i].parses THEN flow[FlowOf(i)].pc = "done" ELSE i \in batch.skipped

\* C27: whatever happens to one message of a fetch (mail parse error,
\* correlation failure, duplicate, store or oracle error), only unparseable
\* messages are dropped and every other message is handled to its outcome.
C27_FailureDoesNotAbortBatch ==
  /\ [](\A i \in batch.skipped : ~batch.msgs[i].parses)
  /\ (batch.pc = "fetching") ~> Settled

PollFailures == {"correlation_failed", "duplicate_proposal", "processing_error"}

C27_Witness ==
  /\ Len(batch.msgs) = 2 /\ Settled
  /\ flow[FlowOf(1)].result \in PollFailures
  /\ flow[FlowOf(2)].result = "success"

\* C28: processReceivedEmail always returns one of success (with the id of
\* the stored record), correlation_failed, duplicate_proposal (with the id of
\* the existing record) and processing_error, whichever lookup, save or
\* oracle call fails.
C28_PollOutcomeAlwaysStructured ==
  /\ [](\A f \in Flows :
          (flow[f].kind = "poll" /\ flow[f].pc = "done")
          => /\ flow[f].result \in {"success"} \cup PollFailures
             /\ flow[f].result \in {"success", "duplicate_proposal"}
                  <=> flow[f].proposalId \in DOMAIN proposals)
  /\ [][\A f \in Flows : StoreFails(f) =>
          \/ flow'[f].pc = "done" /\ flow'[f].result \in PollFailures
          \/ flow'[f].pc = "updateRFP"]_vars
  /\ \A f \in Flows : InFlight(f) ~> flow[f].pc = "done"

C28_Witness ==
  \E f \in Flows :
    /\ flow[f].pc = "done" /\ flow[f].result = "processing_error"
    /\ flow[f].rfpId # Null /\ flow[f].vendorId # Null
    /\ Len(proposals) = 1 /\ proposals[1].requires_review

\* oracle output that breaks one of the required parts of the schema
ViolatesSchema(reply) ==
  \/ reply.line_items \in {"missing", "empty", "bad_item"}
  \/ reply.total_price # "number"
  \/ reply.confidence = None
  \/ reply.confidence[1] < 0 \/ reply.confidence[1] > 100

Answered(reply) ==
  /\ call.purpose = "parseProposal" /\ call.owner = started
  /\ call.pc = "returned" /\ call.content = Some(reply)

\* C30 as stated: when the oracle's output omits the confidence and is
\* otherwise valid, the save of the attempt stores confidence 0, sets
\* requires_review and moves the record to parsed.
C30_OmittedConfidenceDefaultsToZero ==
  [][(SaveParsed("f1") /\ Answered(OmitsConfidence))
     => /\ proposals'[flow["f1"].pid].parsing_confidence = Some(0)
        /\ proposals'[flow["f1"].pid].requires_review
        /\ proposals'[flow["f1"].pid].status = "parsed"]_vars

\* C30, amended: output that omits the confidence is a validation failure
\* even when it is otherwise valid: parseProposal throws, and the save of the
\* attempt only sets requires_review; the record stays received with no
\* confidence and no structured data.
C30_OmittedConfidenceFailsValidation ==
  /\ [][(ParseReturns("f1") /\ Answered(OmitsConfidence)) => flow'["f1"].parsed = None]_vars
  /\ [][(SaveParsed("f1") /\ Answered(OmitsConfidence))
        => /\ proposals'[flow["f1"].pid] =
                [proposals[flow["f1"].pid] EXCEPT !.requires_review = TRUE]
           /\ proposals'[flow["f1"].pid].status = "received"
           /\ proposals'[flow["f1"].pid].parsing_confidence = None
           /\ proposals'[flow["f1"].pid].parsed_data = None]_vars

C30_Witness ==
  /\ flow["f1"].pc = "updateRFP" /\ flow["f1"].kind = "webhook"
  /\ Answered(OmitsConfidence)
  /\ proposals[flow["f1"].pid].status = "received"
  /\ proposals[flow["f1"].pid].requires_review

\* the order of the record statuses
RecordRank(st) == IF st = "received" THEN 1 ELSE IF st = "parsed" THEN 2 ELSE 3

\* the steps of the backend itself (everything but manual review)
CoreStep == \A i \in DOMAIN proposals : ~reviewProposal(i)

\* C31: no step of the backend moves a record's status backwards along
\* received, parsed, reviewed, and none sets reviewed.
C31_RecordStatusOnlyAdvances ==
  [][CoreStep =>
       \A i \in DOMAIN proposals :
         /\ RecordRank(proposals'[i].status) >= RecordRank(proposals[i].status)
         /\ proposals'[i].status = "reviewed" => proposals[i].status = "reviewed"]_vars

\* a step of the re-parse script
ScriptStep == ReparseFind \/ ReparseSave \/ \E reply \in OracleReplies : ReparseParse(reply)

\* the oracle's answers to the parses of the stored records
Oracles == [DOMAIN proposals -> OracleReplies]

\* C32: the re-parse script never creates or deletes a record and never
\* changes a record's request or responder; a successful re-parse makes the
\* loaded record parsed and touches no other record; a failed one changes
\* nothing; and a second run with the same oracle answers leaves the store as
\* the first run left it.
C32_ReparseWorksInPlaceIdempotently ==
  /\ [][ScriptStep =>
          /\ Len(proposals') = Len(proposals)
          /\ \A i \in DOMAIN proposals :
               /\ proposals'[i].rfp_id = proposals[i].rfp_id
               /\ proposals'[i].vendor_id = proposals[i].vendor_id]_vars
  /\ [][ReparseSave =>
          LET cur == Head(reparse.queue)
          IN /\ proposals'[cur.pid].status = "parsed"
             /\ proposals'[cur.pid].parsed_data = reparse.parsed
             /\ \A i \in DOMAIN proposals : i # cur.pid => proposals'[i] = proposals[i]
             /\ \E reply \in OracleReplies :
                  proposals' = ReparseOne(proposals, cur.doc, cur.pid, reply, now)]_vars
  /\ [][(ReparseFind \/ \E reply \in OracleReplies : ReparseParse(reply))
          => proposals' = proposals]_vars
  /\ [](\A oracle \in Oracles :
          reparseProposals(reparseProposals(proposals, oracle, now), oracle, now)
            = reparseProposals(proposals, oracle, now))

\* after two runs one record has been parsed in place and another, whose
\* re-parse failed both times, is as it was stored
C32_Witness ==
  /\ reparse.runs = 2 /\ reparse.pc = "idle"
  /\ Len(proposals) = 2
  /\ proposals[1].status = "parsed" /\ proposals[1].parsing_confidence = Some(0)
  /\ proposals[2].status = "received" /\ proposals[2].parsed_data = None
  /\ \E oracle \in Oracles : reparseProposals(proposals, oracle, now) # proposals

\* C33: once a record is stored, no step changes its request, its responder,
\* its raw email content or its received timestamp, and no step removes a
\* record.
C33_RecordIdentityAndRawContentFrozen ==
  [][/\ Len(proposals') >= Len(proposals)
     /\ \A i \in DOMAIN proposals :
          /\ proposals'[i].rfp_id = proposals[i].rfp_id
          /\ proposals'[i].vendor_id = proposals[i].vendor_id
          /\ proposals'[i].raw_email_content = proposals[i].raw_email_content
          /\ proposals'[i].received_at = proposals[i].received_at]_vars

\* a record that was parsed and reviewed, a redelivery answered as duplicate
\* and a comparison served, the raw content still the email's
C33_Witness ==
  /\ Len(proposals) = 1
  /\ proposals[1].status = "reviewed" /\ proposals[1].parsed_data # None
  /\ flow["f1"].pc = "done" /\ flow["f1"].result = "409_duplicate"
  /\ proposals[1].raw_email_content = flow["f1"].email
  /\ cmp.pc = "done" /\ cmp.response[1].status = 200 /\ cmp.reply # None
  /\ reparse.runs = 1

\* C34: when fetchUnreadEmails has resolved, every message of the fetch has
\* been handled, and the number it resolved with is the number of messages
\* whose callback completed.
C34_ResolvedCountIsProcessedCount ==
  batch.pc = "ended" => Settled /\ batch.resolved = Some(EmailCount)

\* C35: from any state, for the same email and the same oracle answer, the
\* poll entry point and the webhook entry point leave the same records and
\* the same request statuses behind; here for a reply that carries the tag of
\* a request in status sent that was dispatched to its sender, and an oracle
\* answer that passes validation.
C35_AgreeOnDispatchedRequest ==
  \A e \in PipelineEmails, reply \in OracleReplies :
    LET v == findVendorCallback(e.from)
        r == RfpIdMatch(e.subject)
    IN (/\ r # Null /\ v # Null /\ rfps[r].status = "sent"
        /\ v \in {rfps[r].vendors[i].vendor_id : i \in DOMAIN rfps[r].vendors}
        /\ reply.kind = "json" /\ SchemaValid(reply))
       => HandlerEffects("poll", e, reply) = HandlerEffects("webhook", e, reply)


\* C36: in every reachable state, the request id of every record names a
\* request that exists.
C36_RecordsNameExistingRequests ==
  \A i \in DOMAIN proposals :
    /\ proposals[i].rfp_id \in RfpIds
    /\ rfps[proposals[i].rfp_id].status # "none"


\* the request is outstanding and its dispatch list contains the vendor
DispatchedTo(r, v) ==
  /\ rfps[r].status \in {"sent", "receiving_proposals"}
  /\ \E i \in DOMAIN rfps[r].vendors : rfps[r].vendors[i].vendor_id = v

\* C37: a record for (request, vendor) is created only if, at that moment,
\* the request is outstanding and was dispatched to the vendor; here for
\* records naming a request that exists.
C37_RecordedOnlyWhenDispatchedToSender ==
  [][Len(proposals') > Len(proposals) =>
       LET p == proposals'[Len(proposals')]
       IN (p.rfp_id \in RfpIds /\ rfps[p.rfp_id].status # "none")
            => DispatchedTo(p.rfp_id, p.vendor_id)]_vars


\* C38: in every reachable state, a request in status sent or
\* receiving_proposals has a non-empty dispatch list.
C38_OutstandingRequestsWereDispatched ==
  \A r \in RfpIds :
    rfps[r].status \in {"sent", "receiving_proposals"} => rfps[r].vendors # <<>>


\* the vendors with a record among the records a comparison response lists
Responders(resp) == {resp.proposals[i].vendor_id : i \in DOMAIN resp.proposals}

\* C39: whenever getComparison answers with a recommendation, the recommended
\* vendor and the vendor of every analysis entry have a record for the request.
C39_ComparisonNamesOnlyResponders ==
  (cmp.pc = "done" /\ cmp.response # None /\ cmp.response[1].recommendation # None)
  => LET resp == cmp.response[1]
     IN /\ resp.recommendation[1].vendor_id \in Responders(resp)
        /\ \A i \in DOMAIN resp.analysis[1] :
             resp.analysis[1][i].vendor_id \in Responders(resp)


\* the outcomes that reject an inbound email before anything is stored
RejectedOutcomes ==
  {"correlation_failed", "duplicate_proposal", "400_correlation", "409_duplicate"}

\* the positions of a handler before its first write
BeforeInsert == {"findVendor", "findRFP", "findExisting"}

\* C40: a call of processReceivedEmail or receiveProposal that ends with
\* correlation_failed or duplicate_proposal has created or modified no record,
\* changed no request and made no oracle call: every step of the call up to
\* that outcome leaves the records, the requests and the oracle untouched.
C40_RejectedEmailLeavesNoTrace ==
  [][\A f \in Flows :
       (flow'[f] # flow[f]
        /\ (flow'[f].pc \in BeforeInsert \/ flow'[f].result \in RejectedOutcomes))
       => /\ proposals' = proposals /\ rfps' = rfps /\ call' = call
          /\ flow[f].pc \in {"idle", "done"} \cup BeforeInsert
          /\ flow[f].pc \in BeforeInsert => flow[f].pid = 0 /\ flow[f].calls = 0
          /\ flow'[f].pid = 0 /\ flow'[f].calls = 0]_vars

C40_Witness ==
  \E f, g \in Flows :
    /\ flow[f].result = "duplicate_proposal" /\ flow[f].proposalId = 1
    /\ flow[g].pc = "done" /\ flow[g].kind = "webhook" /\ flow[g].result \notin RejectedOutcomes
    /\ Len(proposals) = 1
    /\ proposals[1].raw_email_content # flow[f].email

====
